---- MODULE Spec2Model ----
(***************************************************************************)
(* State-machine model of the Kimi_Agent frontends and scripts.            *)
(*                                                                         *)
(* The repository is a set of independent units (React pages, a WebSocket  *)
(* hook, SQL scripts).  Each unit has its own variables and its own        *)
(* specification (SpecPanels, SpecAnalysis, ...); a specification leaves   *)
(* the other units' variables unchanged.                                   *)
(***************************************************************************)
EXTENDS Integers, Sequences, FiniteSets, TLC

VARIABLES
    \* ---- intelligence panels (one mounted panel and its query) ----
    panel,        \* which of the four panels this behaviour follows ("none" before it mounts)
    pq,           \* the panel's query: status, data, error, fetchStatus, failureCount
    pMounted,     \* the panel is mounted (its observer and interval exist)
    pCountdown,   \* time left (units of 10 s) until the refetch interval fires
    pEvent,       \* the last thing that happened on the panel's endpoint
    \* ---- Analysis page ----
    selectedPair, \* useState('EURUSD')
    aq,           \* the query cache: one query per ['analysis', pair]
    aEvent,       \* the last thing that happened to the selected pair's query
    \* ---- useWebSocket hook ----
    wsMounted,    \* "no" before the effect ran, "yes" while mounted, "gone" after cleanup
    connected,    \* useState(false)
    lastMessage,  \* useState(null)
    sock,         \* every WebSocket the hook created: readyState, subscribes sent on it
    wsCurrent,    \* ws.current: index into sock, 0 for null
    timers,       \* pending setTimeout(connect, 5000) timers, by id
    reconnectRef, \* reconnectTimeout.current: the id last stored, 0 for undefined
    nextTimer,    \* the next timer id setTimeout hands out
    wsThrew,      \* an onopen handler threw (send on a socket still CONNECTING)
    wsDisconnected, \* disconnect() ran after the last connect() of the effect or a caller
    \* ---- System Monitoring page (simulated log stream) ----
    smMounted,
    smLogs,       \* logs.length
    smInterval,   \* the setInterval of the log effect is running
    autoScroll,   \* useState(true)
    \* ---- 24/7 Monitoring page ----
    monMounted,
    status,       \* useState<MonitoringStatus>
    uptime,       \* useState('00:00:00'), as <<hours, minutes, seconds>>
    uptimeInterval, \* the setInterval of the uptime effect is running
    logTop,       \* level of the newest entry of logs ("none" when empty)
    now,          \* the wall clock, in seconds
    \* ---- Chat page: monitoring toggle ----
    isMonitoring,   \* useState(false)
    selectedSymbol, \* useState('BTCUSDT')
    activeAgents,   \* data of the ['agents'] query
    agentsPoll,     \* the GET /agents in flight, if any
    toggle,         \* toggleMonitoringMutation: the POST in flight, if any
    lastToggle,     \* action of the last toggle request that succeeded
    serverAgents,   \* backend: symbols with a running agent
    \* ---- Settings page (v2): Save ----
    activeSection,  \* useState('ai')
    settings,       \* useState({...}): the form's values
    saveMutation,   \* updateSettingsMutation: "idle" or "pending"
    saved,          \* useState(false)
    savedTimer,     \* the setTimeout(() => setSaved(false), 3000) is pending
    lastPost,       \* body of the last POST /settings/update, as sent
    \* ---- Settings page (v1): Test Connection ----
    keyValues,        \* the API-key fields' values
    connectionStatus, \* useState({}): name -> result
    testingConnection,\* useState(null)
    tests,            \* the test-connection requests in flight
    lastSettled,      \* the test that settled last: its field and outcome
    \* ---- the database and its SQL scripts ----
    db,             \* the catalog: tables, indexes, extensions, hypertables
    run,            \* the script run in progress, or the last one
    runCount,       \* script runs started so far
    initApplied,    \* init.sql has been run on this database
    \* ---- rows of market_data_ohlcv ----
    ohlcvRows,      \* the table's rows, in insertion order
    ohlcvResult,    \* the last statement on the table and how it ended
    \* ---- rows of trading_signals and signal_outcomes ----
    signalRows,     \* signal_id of every trading_signals row
    outcomeRows,    \* the signal_outcomes rows: outcome_id and signal_id
    signalResult,   \* the last statement on the two tables and how it ended
    \* ---- the shell test scripts ----
    shScript,       \* the script being run
    shEnv,          \* the conditions of the script's `if`s that hold on this machine
    shPc,           \* the next command of the script
    testsPassed,    \* TESTS_PASSED / passed
    testsFailed,    \* TESTS_FAILED / failed
    shState,        \* "idle", "running" or "exited"
    shExit,         \* the exit status
    shSummary,      \* the passed and failed totals were printed
    shAllPassed,    \* 'All tests passed!' was printed
    \* ---- RiskManager and MT5Client ----
    accountBalance, \* RiskManager.account_balance, in dollars
    riskResult,     \* the last RiskManager call: its arguments and what it returned
    orderResult,    \* the last MT5Client.place_order call: what went to MT5, what it returned
    \* ---- circuit breaker ----
    cbBalance,      \* the account balance, in units of 100 dollars
    cbDayStart,     \* the balance the day's loss is counted from
    cbTripped,      \* whether the breaker is tripped
    cbOpen,         \* open positions of each agent
    cbPlaced,       \* orders placed so far by all agents
    cbLastOp,       \* the last thing that happened to the breaker
    \* ---- Chat page: the conversation ----
    messages,       \* the message list the page shows
    input,          \* the text in the input box
    sendPending,    \* the sends whose POST /chat/message has not settled
    lastSent,       \* the send the mutation observer follows (0: none yet)
    nextSend,       \* the number the next send gets
    historyFetch,   \* the chat-history query: "fetching" or "idle"
    historyFetches, \* how many chat-history requests were made
    \* ---- Signals page: the generate-signal query ----
    sigMounted,     \* the Signals page is mounted
    sigKey,         \* selectedSymbol and selectedTimeframe: the query key
    sigCache,       \* the query keys that hold data
    sigFetching,    \* the query keys with a request in flight
    sigLog,         \* what caused each request to /signals/generate, oldest first
    \* ---- control-panel API (routes.py) ----
    apiAgents,      \* the symbols SwarmFactory holds an agent for
    apiPositions,   \* the tickets of the positions open in MetaTrader 5
    apiResponse,    \* the last request: its endpoint, what the handler raised, the status sent
    \* ---- installers ----
    instScript,     \* the installer that runs ("none" when none does)
    instPc,         \* the step the running installer is at
    instRuns,       \* how many times an installer was started
    envFiles,       \* the contents of backend/.env and frontend/.env
    envActor        \* who changed the files last: "installer", "user" or "none"

panelVars == <<panel, pq, pMounted, pCountdown, pEvent>>
analysisVars == <<selectedPair, aq, aEvent>>

wsVars == <<wsMounted, connected, lastMessage, sock, wsCurrent, timers,
           reconnectRef, nextTimer, wsThrew, wsDisconnected>>

sysMonVars == <<smMounted, smLogs, smInterval, autoScroll>>
monVars == <<monMounted, status, uptime, uptimeInterval, logTop, now>>
chatVars == <<isMonitoring, selectedSymbol, activeAgents, agentsPoll, toggle,
             lastToggle, serverAgents>>
settingsVars == <<activeSection, settings, saveMutation, saved, savedTimer, lastPost>>
testVars == <<keyValues, connectionStatus, testingConnection, tests, lastSettled>>
sqlVars == <<db, run, runCount, initApplied>>
ohlcvVars == <<ohlcvRows, ohlcvResult>>
signalVars == <<signalRows, outcomeRows, signalResult>>
riskVars == <<accountBalance, riskResult, orderResult>>
cbVars == <<cbBalance, cbDayStart, cbTripped, cbOpen, cbPlaced, cbLastOp>>
msgVars == <<messages, input, sendPending, lastSent, nextSend, historyFetch,
            historyFetches>>
genVars == <<sigMounted, sigKey, sigCache, sigFetching, sigLog>>
apiVars == <<apiAgents, apiPositions, apiResponse>>
instVars == <<instScript, instPc, instRuns, envFiles, envActor>>
shVars == <<shScript, shEnv, shPc, testsPassed, testsFailed, shState, shExit,
           shSummary, shAllPassed>>

vars == <<panelVars, analysisVars, wsVars, sysMonVars, monVars, chatVars,
          settingsVars, testVars, sqlVars, ohlcvVars, signalVars, shVars, riskVars, cbVars, msgVars, genVars, apiVars, instVars>>

(***************************************************************************)
(* JavaScript values.  undefined and null are values of their own; an      *)
(* object or array carries its fields.                                     *)
(***************************************************************************)
Undefined == [kind |-> "undefined"]
Null      == [kind |-> "null"]

\* JavaScript truthiness of the values the panels can hold (objects and
\* arrays, even empty ones, are truthy; undefined and null are not).
Truthy(v) == v.kind \notin {"undefined", "null"}

\* a || b
JsOr(a, b) == IF Truthy(a) THEN a ELSE b

\* a?.f || d, for the fields the panels read (a present field keeps its value:
\* 0 || 0 is 0, and an empty array is truthy)
OptField(a, f, d) == IF a.kind \in {"undefined", "null"} THEN d ELSE a[f]

\* arr.slice(0, n)
Slice0(s, n) == SubSeq(s, 1, IF Len(s) < n THEN Len(s) ELSE n)

(***************************************************************************)
(* TanStack Query, as the pages use it: one query per key with the fields  *)
(* the pages read (data, error, isLoading) and the ones that drive it.     *)
(***************************************************************************)
\* queryClient defaultOptions.queries.retry
Retry == 3

\* a query nobody has fetched yet
FreshQuery ==
    [status |-> "pending", data |-> Undefined, error |-> FALSE,
     fetchStatus |-> "idle", attempt |-> "none", failureCount |-> 0]

\* the query's 'fetch' transition: a query that holds no data goes back to
\* pending and drops its error; one that holds data keeps both
StartFetch(q) ==
    [q EXCEPT !.fetchStatus = "fetching", !.attempt = "inflight",
              !.failureCount = 0,
              !.status = IF q.data = Undefined THEN "pending" ELSE q.status,
              !.error = IF q.data = Undefined THEN FALSE ELSE q.error]

\* queryFn resolved with d
FetchSucceeded(q, d) ==
    [q EXCEPT !.status = "success", !.data = d, !.error = FALSE,
              !.fetchStatus = "idle", !.attempt = "none", !.failureCount = 0]

\* queryFn rejected: retried until `retry` retries are used up, then an error
FetchFailed(q) ==
    IF q.failureCount < Retry
    THEN [q EXCEPT !.failureCount = q.failureCount + 1, !.attempt = "backoff"]
    ELSE [q EXCEPT !.failureCount = q.failureCount + 1, !.attempt = "none",
                   !.status = "error", !.error = TRUE, !.fetchStatus = "idle"]

\* the retry delay has passed: the next attempt goes out
RetryFetch(q) == [q EXCEPT !.attempt = "inflight"]

\* useQuery's isLoading: the first fetch of a query that holds no data
IsLoading(q) == q.status = "pending" /\ q.fetchStatus = "fetching"

(***************************************************************************)
(* The four intelligence panels.                                           *)
(***************************************************************************)
\* pEvent values that stand for a GET going out, by what issued it
RequestEvents == {"mount-request", "interval-request", "retry-request"}

Panels == {"consensus", "performance", "mistakes", "evolution"}

\* a panel whose useQuery sets no refetchInterval
RefetchIntervalOff(p) == 0

\* refetchInterval of each panel's useQuery, in seconds
RefetchInterval(p) ==
    CASE p = "consensus"   -> 10
      [] p = "performance" -> 30
      [] p = "mistakes"    -> 60
      [] p = "evolution"   -> 60

\* the interval in the model's time unit of 10 s
Period(p) == RefetchInterval(p) \div 10

Opinion(name, vote, conf) == [agent_name |-> name, vote |-> vote, confidence |-> conf]

\* AgentStatusPanel's fallback demo data (confidence in percent)
DemoConsensus ==
    [kind |-> "object", symbol |-> "BTC/USDT", direction |-> "NEUTRAL",
     consensus_score |-> 0, agreement_count |-> 0, total_agents |-> 5,
     is_actionable |-> FALSE,
     opinions |-> << Opinion("DataAgent", "NEUTRAL", 90),
                     Opinion("TechnicalAgent", "NEUTRAL", 0),
                     Opinion("SentimentAgent", "NEUTRAL", 30),
                     Opinion("MLAgent", "NEUTRAL", 0),
                     Opinion("RiskAgent", "NEUTRAL", 100) >>]

\* PerformancePanel's fallback
ZeroPerformance ==
    [kind |-> "object", win_rate |-> 0, total_trades |-> 0, total_pnl |-> 0,
     max_drawdown_pct |-> 0, sharpe_ratio |-> 0, avg_rr |-> 0, is_paused |-> FALSE]

\* EvolutionLog's fallback
NoEvents == [kind |-> "array", items |-> <<>>]

\* bodies the endpoints can answer with
Responses(p) ==
    CASE p = "consensus" ->
           { [kind |-> "object", symbol |-> "ETH/USDT", direction |-> "LONG",
              consensus_score |-> 60, agreement_count |-> 2, total_agents |-> 2,
              is_actionable |-> TRUE,
              opinions |-> << Opinion("MLAgent", "LONG", 80),
                              Opinion("RiskAgent", "SHORT", 50) >>],
             Null }
      [] p = "performance" ->
           { [kind |-> "object", win_rate |-> 55, total_trades |-> 12,
              total_pnl |-> 340, max_drawdown_pct |-> 4, sharpe_ratio |-> 1,
              avg_rr |-> 2, is_paused |-> TRUE],
             Null }
      [] p = "mistakes" ->
           { [kind |-> "object", total_mistakes |-> 1,
              patterns |-> << [type |-> "oversize", count |-> 1, severity |-> 40] >>,
              corrective_actions |-> << "a1", "a2", "a3", "a4" >>],
             Null }
      [] p = "evolution" ->
           { [kind |-> "array",
              items |-> << [id |-> 1, event_type |-> "retrain"],
                           [id |-> 2, event_type |-> "pause"] >>],
             [kind |-> "array", items |-> <<>>] }

\* a mistake log that reads the response without guarding against undefined
PanelValueUnguarded(p, data) == data

\* the value each panel renders from: `data || fallback`, and MistakeLog's
\* field-by-field `data?.f || default`
PanelValue(p, data) ==
    CASE p = "consensus"   -> JsOr(data, DemoConsensus)
      [] p = "performance" -> JsOr(data, ZeroPerformance)
      [] p = "mistakes"    ->
           [kind |-> "object",
            total_mistakes |-> OptField(data, "total_mistakes", 0),
            patterns |-> OptField(data, "patterns", <<>>),
            corrective_actions |-> OptField(data, "corrective_actions", <<>>)]
      [] p = "evolution"   -> JsOr(data, NoEvents)

\* what the panel's JSX reads of that value; reading a field of undefined or
\* null throws, and then nothing is rendered
Render(p, v) ==
    IF v.kind \in {"undefined", "null"} THEN [threw |-> TRUE]
    ELSE CASE p = "consensus" ->
                [threw |-> FALSE, direction |-> v.direction,
                 score |-> v.consensus_score,
                 agree |-> <<v.agreement_count, v.total_agents>>,
                 actionable |-> v.is_actionable,
                 votes |-> [i \in DOMAIN v.opinions |-> v.opinions[i].vote]]
           [] p = "performance" ->
                [threw |-> FALSE, paused |-> v.is_paused, pnl |-> v.total_pnl,
                 trades |-> v.total_trades,
                 metrics |-> <<v.win_rate, v.sharpe_ratio, v.max_drawdown_pct, v.avg_rr>>]
           [] p = "mistakes" ->
                [threw |-> FALSE, total |-> v.total_mistakes,
                 empty |-> Len(v.patterns) = 0,
                 rows |-> v.patterns,
                 actions |-> Slice0(v.corrective_actions, 3)]
           [] p = "evolution" ->
                [threw |-> FALSE, empty |-> Len(v.items) = 0,
                 rows |-> Slice0(v.items, 8)]

\* the panel as currently on screen
PanelView == Render(panel, PanelValue(panel, pq.data))

\* what the panels never touch
panelFrame == <<analysisVars, wsVars, sysMonVars, monVars, chatVars,
    settingsVars, testVars, sqlVars, ohlcvVars, signalVars, shVars, riskVars, cbVars, msgVars, genVars, apiVars, instVars>>

InitPanels ==
    /\ panel = "none"
    /\ pq = FreshQuery
    /\ pMounted = FALSE
    /\ pCountdown = 0
    /\ pEvent = "none"

\* the component mounts: the observer fetches (a cached, still fresh result is
\* not refetched) and starts its interval
PanelMount ==
    /\ ~pMounted
    /\ pMounted' = TRUE
    /\ IF panel = "none" THEN panel' \in Panels ELSE panel' = panel
    /\ pCountdown' = Period(panel')
    /\ \E stale \in BOOLEAN :
         IF pq.fetchStatus = "idle" /\ (pq.data = Undefined \/ stale)
         THEN pq' = StartFetch(pq) /\ pEvent' = "mount-request"
         ELSE UNCHANGED <<pq, pEvent>>
    /\ UNCHANGED panelFrame

PanelUnmount ==
    /\ pMounted
    /\ pMounted' = FALSE
    /\ pCountdown' = 0
    /\ UNCHANGED <<panel, pq, pEvent>>
    /\ UNCHANGED panelFrame

\* 10 seconds pass
PanelTime ==
    /\ pMounted /\ pCountdown > 0
    /\ pCountdown' = pCountdown - 1
    /\ UNCHANGED <<panel, pq, pMounted, pEvent>>
    /\ UNCHANGED panelFrame

\* the refetch interval fires: a refetch, unless one is already running
PanelIntervalFire ==
    /\ pMounted /\ pCountdown = 0 /\ RefetchInterval(panel) > 0
    /\ pCountdown' = Period(panel)
    /\ IF pq.fetchStatus = "idle"
       THEN pq' = StartFetch(pq) /\ pEvent' = "interval-request"
       ELSE UNCHANGED <<pq, pEvent>>
    /\ UNCHANGED <<panel, pMounted>>
    /\ UNCHANGED panelFrame

\* the GET answers 2xx (the observer then re-arms its interval)
PanelSuccess ==
    /\ pq.attempt = "inflight"
    /\ \E d \in Responses(panel) : pq' = FetchSucceeded(pq, d)
    /\ pEvent' = "success"
    /\ pCountdown' = IF pMounted THEN Period(panel) ELSE pCountdown
    /\ UNCHANGED <<panel, pMounted>>
    /\ UNCHANGED panelFrame

\* the GET fails (network error or non-2xx)
PanelFail ==
    /\ pq.attempt = "inflight"
    /\ pq' = FetchFailed(pq)
    /\ pEvent' = "failure"
    /\ UNCHANGED <<panel, pMounted, pCountdown>>
    /\ UNCHANGED panelFrame

PanelRetry ==
    /\ pq.attempt = "backoff"
    /\ pq' = RetryFetch(pq)
    /\ pEvent' = "retry-request"
    /\ UNCHANGED <<panel, pMounted, pCountdown>>
    /\ UNCHANGED panelFrame

NextPanels ==
    \/ PanelMount
    \/ PanelUnmount
    \/ PanelTime
    \/ PanelIntervalFire
    \/ PanelSuccess
    \/ PanelFail
    \/ PanelRetry

(***************************************************************************)
(* The Analysis page.                                                      *)
(***************************************************************************)
\* two of the page's five pairs
Pairs == {"EURUSD", "GBPUSD"}

AnalysisData == [kind |-> "object", liquidityZones |-> <<>>]

\* the selected pair's query, as useQuery returns it
SelectedQuery == aq[selectedPair]

\* a page that shows the tabs whatever the query's error
ScreenIgnoringError(q) ==
    IF IsLoading(q) /\ ~Truthy(q.data) THEN "spinner" ELSE "tabs"

\* the content area: `isLoading && !data ? spinner : error ? failed : tabs`
Screen(q) ==
    IF IsLoading(q) /\ ~Truthy(q.data) THEN "spinner"
    ELSE IF q.error THEN "failed"
    ELSE "tabs"

analysisFrame == <<panelVars, wsVars, sysMonVars, monVars, chatVars,
    settingsVars, testVars, sqlVars, ohlcvVars, signalVars, shVars, riskVars, cbVars, msgVars, genVars, apiVars, instVars>>

\* the page has mounted and its first request is out
InitAnalysis ==
    /\ selectedPair = "EURUSD"
    /\ aq = [p \in Pairs |-> IF p = "EURUSD" THEN StartFetch(FreshQuery) ELSE FreshQuery]
    /\ aEvent = "mount-request"

\* the user picks another pair: the observer moves to that pair's query and
\* fetches it unless it holds a still fresh result
SelectPair(p) ==
    /\ p # selectedPair
    /\ selectedPair' = p
    /\ \E stale \in BOOLEAN :
         IF aq[p].fetchStatus = "idle" /\ (aq[p].data = Undefined \/ stale)
         THEN aq' = [aq EXCEPT ![p] = StartFetch(aq[p])] /\ aEvent' = "mount-request"
         ELSE aq' = aq /\ aEvent' = "none"
    /\ UNCHANGED analysisFrame

\* refetchInterval: 60000 fires for the selected pair
AnalysisIntervalFire ==
    /\ aq[selectedPair].fetchStatus = "idle"
    /\ aq' = [aq EXCEPT ![selectedPair] = StartFetch(aq[selectedPair])]
    /\ aEvent' = "interval-request"
    /\ UNCHANGED <<selectedPair, analysisFrame>>

\* GET /analysis/{p} answers 2xx
AnalysisSuccess(p) ==
    /\ aq[p].attempt = "inflight"
    /\ aq' = [aq EXCEPT ![p] = FetchSucceeded(aq[p], AnalysisData)]
    /\ aEvent' = IF p = selectedPair THEN "success" ELSE aEvent
    /\ UNCHANGED <<selectedPair, analysisFrame>>

\* GET /analysis/{p} fails
AnalysisFail(p) ==
    /\ aq[p].attempt = "inflight"
    /\ aq' = [aq EXCEPT ![p] = FetchFailed(aq[p])]
    /\ aEvent' = IF p = selectedPair THEN "failure" ELSE aEvent
    /\ UNCHANGED <<selectedPair, analysisFrame>>

AnalysisRetry(p) ==
    /\ aq[p].attempt = "backoff"
    /\ aq' = [aq EXCEPT ![p] = RetryFetch(aq[p])]
    /\ aEvent' = IF p = selectedPair THEN "retry-request" ELSE aEvent
    /\ UNCHANGED <<selectedPair, analysisFrame>>

NextAnalysis ==
    \/ \E p \in Pairs : SelectPair(p)
    \/ AnalysisIntervalFire
    \/ \E p \in Pairs : AnalysisSuccess(p)
    \/ \E p \in Pairs : AnalysisFail(p)
    \/ \E p \in Pairs : AnalysisRetry(p)

(***************************************************************************)
(* The useWebSocket hook.                                                  *)
(***************************************************************************)
\* how many sockets one behaviour may create
MaxSockets == 3

\* how many reconnect timers one behaviour may create
MaxTimers == 3

wsFrame == <<panelVars, analysisVars, sysMonVars, monVars, chatVars,
    settingsVars, testVars, sqlVars, ohlcvVars, signalVars, shVars, riskVars, cbVars, msgVars, genVars, apiVars, instVars>>

InitWs ==
    /\ wsMounted = "no"
    /\ connected = FALSE
    /\ lastMessage = "null"
    /\ sock = <<>>
    /\ wsCurrent = 0
    /\ timers = {}
    /\ reconnectRef = 0
    /\ nextTimer = 1
    /\ wsThrew = FALSE
    /\ wsDisconnected = FALSE

NewSocket == [state |-> "CONNECTING", opened |-> FALSE, subs |-> 0]

\* connect(): ws.current = new WebSocket(wsUrl), whatever ws.current held
SocksAfterConnect(s) == Append(s, NewSocket)

\* onopen's `ws.current?.send(subscribe)`: the message goes out on the socket
\* ws.current names now; send() on a CLOSING or CLOSED socket drops it
SocksAfterOnOpen(s, opened, cur) ==
    LET s1 == [s EXCEPT ![opened].state = "OPEN", ![opened].opened = TRUE]
    IN  IF cur # 0 /\ s1[cur].state = "OPEN"
        THEN [s1 EXCEPT ![cur].subs = s1[cur].subs + 1]
        ELSE s1

\* send() on a socket that is still CONNECTING throws InvalidStateError
OnOpenThrows(s, opened, cur) ==
    cur # 0 /\ cur # opened /\ s[cur].state = "CONNECTING"

\* disconnect()'s `ws.current?.close()`
SocksAfterClose(s, cur) ==
    IF cur # 0 /\ s[cur].state \in {"CONNECTING", "OPEN"}
    THEN [s EXCEPT ![cur].state = "CLOSING"]
    ELSE s

\* disconnect()'s `if (reconnectTimeout.current) clearTimeout(...)`
TimersAfterClear(ts, ref) == IF ref # 0 THEN ts \ {ref} ELSE ts

\* the body of connect()
DoConnect ==
    /\ Len(sock) < MaxSockets
    /\ sock' = SocksAfterConnect(sock)
    /\ wsCurrent' = Len(sock) + 1

\* the body of disconnect()
DoDisconnect ==
    /\ timers' = TimersAfterClear(timers, reconnectRef)
    /\ sock' = SocksAfterClose(sock, wsCurrent)

\* the mount effect: connect(), on the first mount and on a later remount
WsMount ==
    /\ wsMounted # "yes"
    /\ wsMounted' = "yes"
    /\ DoConnect
    /\ UNCHANGED <<connected, lastMessage, timers, reconnectRef, nextTimer, wsThrew>>
    /\ wsDisconnected' = FALSE
    /\ UNCHANGED wsFrame

\* the effect's cleanup: disconnect()
WsUnmount ==
    /\ wsMounted = "yes"
    /\ wsMounted' = "gone"
    /\ DoDisconnect
    /\ UNCHANGED <<connected, lastMessage, wsCurrent, reconnectRef, nextTimer, wsThrew>>
    /\ wsDisconnected' = TRUE
    /\ UNCHANGED wsFrame

\* a caller uses the connect the hook returns
WsCallConnect ==
    /\ wsMounted = "yes"
    /\ DoConnect
    /\ UNCHANGED <<wsMounted, connected, lastMessage, timers, reconnectRef, nextTimer, wsThrew>>
    /\ wsDisconnected' = FALSE
    /\ UNCHANGED wsFrame

\* a caller uses the disconnect the hook returns
WsCallDisconnect ==
    /\ wsMounted = "yes"
    /\ DoDisconnect
    /\ UNCHANGED <<wsMounted, connected, lastMessage, wsCurrent, reconnectRef, nextTimer, wsThrew>>
    /\ wsDisconnected' = TRUE
    /\ UNCHANGED wsFrame

\* socket i opens: its onopen handler runs
WsOnOpen(i) ==
    /\ sock[i].state = "CONNECTING"
    /\ connected' = TRUE
    /\ sock' = SocksAfterOnOpen(sock, i, wsCurrent)
    /\ wsThrew' = (wsThrew \/ OnOpenThrows(sock, i, wsCurrent))
    /\ UNCHANGED <<wsMounted, lastMessage, wsCurrent, timers, reconnectRef, nextTimer>>
    /\ UNCHANGED wsDisconnected
    /\ UNCHANGED wsFrame

\* a frame arrives on socket i: onmessage keeps it if it parses as JSON
WsOnMessage(i, parses) ==
    /\ sock[i].state = "OPEN"
    /\ lastMessage' = IF parses THEN "message" ELSE lastMessage
    /\ UNCHANGED <<wsMounted, connected, sock, wsCurrent, timers, reconnectRef, nextTimer, wsThrew>>
    /\ UNCHANGED wsDisconnected
    /\ UNCHANGED wsFrame

\* onclose that reconnects for the socket ws.current names only
WsOnCloseCurrentOnly(i) ==
    /\ sock[i].state # "CLOSED"
    /\ nextTimer <= MaxTimers
    /\ sock' = [sock EXCEPT ![i].state = "CLOSED"]
    /\ connected' = FALSE
    /\ timers' = IF i = wsCurrent THEN timers \cup {nextTimer} ELSE timers
    /\ reconnectRef' = IF i = wsCurrent THEN nextTimer ELSE reconnectRef
    /\ nextTimer' = nextTimer + 1
    /\ UNCHANGED <<wsMounted, lastMessage, wsCurrent, wsThrew>>
    /\ UNCHANGED wsDisconnected
    /\ UNCHANGED wsFrame

\* socket i closes (refused, dropped, closed by the server or by close()):
\* its onclose handler runs
WsOnClose(i) ==
    /\ sock[i].state # "CLOSED"
    /\ nextTimer <= MaxTimers
    /\ sock' = [sock EXCEPT ![i].state = "CLOSED"]
    /\ connected' = FALSE
    /\ timers' = timers \cup {nextTimer}
    /\ reconnectRef' = nextTimer
    /\ nextTimer' = nextTimer + 1
    /\ UNCHANGED <<wsMounted, lastMessage, wsCurrent, wsThrew>>
    /\ UNCHANGED wsDisconnected
    /\ UNCHANGED wsFrame

\* a reconnect timer fires 5 seconds after it was set: connect()
WsTimerFire(t) ==
    /\ t \in timers
    /\ timers' = timers \ {t}
    /\ DoConnect
    /\ UNCHANGED <<wsMounted, connected, lastMessage, reconnectRef, nextTimer, wsThrew>>
    /\ UNCHANGED wsDisconnected
    /\ UNCHANGED wsFrame

NextWs ==
    \/ WsMount
    \/ WsUnmount
    \/ WsCallConnect
    \/ WsCallDisconnect
    \/ \E i \in DOMAIN sock : WsOnOpen(i)
    \/ \E i \in DOMAIN sock, parses \in BOOLEAN : WsOnMessage(i, parses)
    \/ \E i \in DOMAIN sock : WsOnClose(i)
    \/ \E t \in timers : WsTimerFire(t)

(***************************************************************************)
(* The System Monitoring page: a simulated log stream on its own interval. *)
(***************************************************************************)
\* the newest entries the log effect keeps
LogCap == 50

sysMonFrame == <<panelVars, analysisVars, wsVars, monVars, chatVars,
    settingsVars, testVars, sqlVars, ohlcvVars, signalVars, shVars, riskVars, cbVars, msgVars, genVars, apiVars, instVars>>

InitSysMon ==
    /\ smMounted = FALSE
    /\ smLogs = 0
    /\ smInterval = FALSE
    /\ autoScroll = TRUE

\* setLogs(prev => [...prev, randomLog] cut to the last 50)
LogsAfterAppend(n) == IF n + 1 > LogCap THEN LogCap ELSE n + 1

\* mount: useEffect(..., []) starts the 2-second interval
SysMonMount ==
    /\ ~smMounted
    /\ smMounted' = TRUE
    /\ smInterval' = TRUE
    /\ smLogs' = 0
    /\ autoScroll' = TRUE
    /\ UNCHANGED sysMonFrame

\* unmount: the effect's cleanup clears the interval
SysMonUnmount ==
    /\ smMounted
    /\ smMounted' = FALSE
    /\ smInterval' = FALSE
    /\ UNCHANGED <<smLogs, autoScroll>>
    /\ UNCHANGED sysMonFrame

\* the interval's callback appends one simulated line
SysMonLogTick ==
    /\ smInterval
    /\ smLogs' = LogsAfterAppend(smLogs)
    /\ UNCHANGED <<smMounted, smInterval, autoScroll>>
    /\ UNCHANGED sysMonFrame

ToggleAutoScroll ==
    /\ smMounted
    /\ autoScroll' = ~autoScroll
    /\ UNCHANGED <<smMounted, smLogs, smInterval>>
    /\ UNCHANGED sysMonFrame

(***************************************************************************)
(* The 24/7 Monitoring page: Start / Pause / Stop.                         *)
(***************************************************************************)
\* how far the clock runs, in seconds
MaxClock == 3

\* startTime: null
NoTime == -1

monFrame == <<panelVars, analysisVars, wsVars, sysMonVars, chatVars,
    settingsVars, testVars, sqlVars, ohlcvVars, signalVars, shVars, riskVars, cbVars, msgVars, genVars, apiVars, instVars>>

InitialStatus ==
    [isRunning |-> FALSE, startTime |-> NoTime, activeTasks |-> 0,
     completedTasks |-> 0, errors |-> 0]

InitMon ==
    /\ monMounted = FALSE
    /\ status = InitialStatus
    /\ uptime = <<0, 0, 0>>
    /\ uptimeInterval = FALSE
    /\ logTop = "info"
    /\ now = 0

\* the uptime callback's HH:MM:SS of a difference in seconds
FormatUptime(diff) == << diff \div 3600, (diff % 3600) \div 60, diff % 60 >>

\* a pause that also forgets the start time
PauseUpdateClearing(prev) == [prev EXCEPT !.isRunning = FALSE, !.startTime = NoTime]

\* handleStart's updater
StartUpdate(prev, t) == [prev EXCEPT !.isRunning = TRUE, !.startTime = t, !.activeTasks = 5]

\* handlePause's updater
PauseUpdate(prev) == [prev EXCEPT !.isRunning = FALSE]

\* handleStop's updater
StopUpdate(prev) == [prev EXCEPT !.isRunning = FALSE, !.startTime = NoTime, !.activeTasks = 0]

\* an uptime effect that keeps ticking while a start time is set
UptimeEffectByStartTime(st) == st.startTime # NoTime

\* the uptime effect runs its interval iff `status.isRunning && status.startTime`
\* (the effect re-runs, clearing the old interval, when either changes)
UptimeEffect(st) == st.isRunning /\ st.startTime # NoTime

\* which buttons the header renders
StartOffered == monMounted /\ ~status.isRunning
PauseOffered == monMounted /\ status.isRunning
StopOffered == monMounted /\ status.isRunning

MonMount ==
    /\ ~monMounted
    /\ monMounted' = TRUE
    /\ status' = InitialStatus
    /\ uptime' = <<0, 0, 0>>
    /\ logTop' = "info"
    /\ uptimeInterval' = UptimeEffect(status')
    /\ UNCHANGED now
    /\ UNCHANGED monFrame

\* unmount: the effect's cleanup clears the interval
MonUnmount ==
    /\ monMounted
    /\ monMounted' = FALSE
    /\ uptimeInterval' = FALSE
    /\ UNCHANGED <<status, uptime, logTop, now>>
    /\ UNCHANGED monFrame

\* one second passes
MonClock ==
    /\ now < MaxClock
    /\ now' = now + 1
    /\ UNCHANGED <<monMounted, status, uptime, uptimeInterval, logTop>>
    /\ UNCHANGED monFrame

\* the uptime interval's callback
MonUptimeTick ==
    /\ uptimeInterval
    /\ uptime' = FormatUptime(now - status.startTime)
    /\ UNCHANGED <<monMounted, status, uptimeInterval, logTop, now>>
    /\ UNCHANGED monFrame

HandleStart ==
    /\ StartOffered
    /\ status' = StartUpdate(status, now)
    /\ logTop' = "success"
    /\ uptimeInterval' = UptimeEffect(status')
    /\ UNCHANGED <<monMounted, uptime, now>>
    /\ UNCHANGED monFrame

HandlePause ==
    /\ PauseOffered
    /\ status' = PauseUpdate(status)
    /\ logTop' = "warning"
    /\ uptimeInterval' = UptimeEffect(status')
    /\ UNCHANGED <<monMounted, uptime, now>>
    /\ UNCHANGED monFrame

HandleStop ==
    /\ StopOffered
    /\ status' = StopUpdate(status)
    /\ uptime' = <<0, 0, 0>>
    /\ logTop' = "error"
    /\ uptimeInterval' = UptimeEffect(status')
    /\ UNCHANGED <<monMounted, now>>
    /\ UNCHANGED monFrame

\* the Clear button of the log card
ClearLogs ==
    /\ monMounted
    /\ logTop' = "none"
    /\ UNCHANGED <<monMounted, status, uptime, uptimeInterval, now>>
    /\ UNCHANGED monFrame

NextMonitoring ==
    \/ SysMonMount
    \/ SysMonUnmount
    \/ SysMonLogTick
    \/ ToggleAutoScroll
    \/ MonMount
    \/ MonUnmount
    \/ MonClock
    \/ MonUptimeTick
    \/ HandleStart
    \/ HandlePause
    \/ HandleStop
    \/ ClearLogs

(***************************************************************************)
(* The Chat page: the monitoring toggle and the /agents poll.              *)
(***************************************************************************)
\* two of the selector's six symbols
Symbols == {"BTCUSDT", "ETHUSDT"}

chatFrame == <<panelVars, analysisVars, wsVars, sysMonVars, monVars,
    settingsVars, testVars, sqlVars, ohlcvVars, signalVars, shVars, riskVars, cbVars, msgVars, genVars, apiVars, instVars>>

\* a list of agents, as GET /agents answers it
AgentList(syms) == [kind |-> "array", items |-> syms]

Idle == [phase |-> "idle"]

\* the backend keeps its agents; the page starts with its first poll out
InitChat ==
    /\ isMonitoring = FALSE
    /\ selectedSymbol = "BTCUSDT"
    /\ activeAgents = Undefined
    /\ agentsPoll = [phase |-> "sent"]
    /\ toggle = Idle
    /\ lastToggle = "none"
    /\ serverAgents = {}

\* the 'Restore monitoring status' effect, run when activeAgents changes:
\* `if (activeAgents && activeAgents.length > 0) setIsMonitoring(true)`
RestoredMonitoring(cur, data) ==
    IF Truthy(data) /\ data.items # {} THEN TRUE ELSE cur

\* onSuccess: setIsMonitoring(action === 'start')
MonitoringAfterToggle(action) == action = "start"

\* the button's onClick argument: isMonitoring ? 'stop' : 'start'
ToggleAction(mon) == IF mon THEN "stop" ELSE "start"

\* the page is reloaded: component state starts over, the backend keeps its agents
ChatReload ==
    /\ isMonitoring' = FALSE
    /\ selectedSymbol' = "BTCUSDT"
    /\ activeAgents' = Undefined
    /\ agentsPoll' = [phase |-> "sent"]
    /\ toggle' = Idle
    /\ lastToggle' = "none"
    /\ UNCHANGED serverAgents
    /\ UNCHANGED chatFrame

SelectSymbol(sym) ==
    /\ sym # selectedSymbol
    /\ selectedSymbol' = sym
    /\ UNCHANGED <<isMonitoring, activeAgents, agentsPoll, toggle, lastToggle, serverAgents>>
    /\ UNCHANGED chatFrame

\* refetchInterval: 5000 issues the next GET /agents
AgentsPollSend ==
    /\ agentsPoll.phase = "idle"
    /\ agentsPoll' = [phase |-> "sent"]
    /\ UNCHANGED <<isMonitoring, selectedSymbol, activeAgents, toggle, lastToggle, serverAgents>>
    /\ UNCHANGED chatFrame

\* the backend answers the GET with the agents it has at that moment
ServerAnswerPoll ==
    /\ agentsPoll.phase = "sent"
    /\ agentsPoll' = [phase |-> "answered", body |-> AgentList(serverAgents)]
    /\ UNCHANGED <<isMonitoring, selectedSymbol, activeAgents, toggle, lastToggle, serverAgents>>
    /\ UNCHANGED chatFrame

\* the answer reaches the page; the query keeps the old data object when the
\* new one is deeply equal, so the effect runs only when the list changed
AgentsPollDeliver ==
    /\ agentsPoll.phase = "answered"
    /\ agentsPoll' = Idle
    /\ activeAgents' = agentsPoll.body
    /\ isMonitoring' = IF agentsPoll.body # activeAgents
                       THEN RestoredMonitoring(isMonitoring, agentsPoll.body)
                       ELSE isMonitoring
    /\ UNCHANGED <<selectedSymbol, toggle, lastToggle, serverAgents>>
    /\ UNCHANGED chatFrame

\* the GET fails for good: the data stays
AgentsPollFail ==
    /\ agentsPoll.phase \in {"sent", "answered"}
    /\ agentsPoll' = Idle
    /\ UNCHANGED <<isMonitoring, selectedSymbol, activeAgents, toggle, lastToggle, serverAgents>>
    /\ UNCHANGED chatFrame

\* the toggle button (disabled while the mutation is pending)
ClickToggle ==
    /\ toggle.phase = "idle"
    /\ toggle' = [phase |-> "sent", action |-> ToggleAction(isMonitoring),
                  pairs |-> {selectedSymbol}]
    /\ UNCHANGED <<isMonitoring, selectedSymbol, activeAgents, agentsPoll, lastToggle, serverAgents>>
    /\ UNCHANGED chatFrame

\* POST /agent/start or /agent/stop is carried out by the backend
ServerHandleToggle ==
    /\ toggle.phase = "sent"
    /\ serverAgents' = IF toggle.action = "start"
                       THEN serverAgents \cup toggle.pairs
                       ELSE serverAgents \ toggle.pairs
    /\ toggle' = [toggle EXCEPT !.phase = "answered"]
    /\ UNCHANGED <<isMonitoring, selectedSymbol, activeAgents, agentsPoll, lastToggle>>
    /\ UNCHANGED chatFrame

\* the mutation's onSuccess
ToggleSuccess ==
    /\ toggle.phase = "answered"
    /\ isMonitoring' = MonitoringAfterToggle(toggle.action)
    /\ lastToggle' = toggle.action
    /\ toggle' = Idle
    /\ UNCHANGED <<selectedSymbol, activeAgents, agentsPoll, serverAgents>>
    /\ UNCHANGED chatFrame

\* the POST fails (no onError handler: nothing changes)
ToggleFail ==
    /\ toggle.phase \in {"sent", "answered"}
    /\ toggle' = Idle
    /\ UNCHANGED <<isMonitoring, selectedSymbol, activeAgents, agentsPoll, lastToggle, serverAgents>>
    /\ UNCHANGED chatFrame

NextChat ==
    \/ ChatReload
    \/ \E sym \in Symbols : SelectSymbol(sym)
    \/ AgentsPollSend
    \/ ServerAnswerPoll
    \/ AgentsPollDeliver
    \/ AgentsPollFail
    \/ ClickToggle
    \/ ServerHandleToggle
    \/ ToggleSuccess
    \/ ToggleFail

(***************************************************************************)
(* The v2 Settings page: Save.                                             *)
(***************************************************************************)
Sections == {"ai", "trading", "social", "risk", "general"}

settingsFrame == <<panelVars, analysisVars, wsVars, sysMonVars, monVars, chatVars,
    testVars, sqlVars, ohlcvVars, signalVars, shVars, riskVars, cbVars, msgVars, genVars, apiVars, instVars>>

\* three of the form's fields with their initial values
DefaultSettings ==
    [kind |-> "object", openrouter_api_key |-> "", binance_testnet |-> TRUE,
     per_trade_risk |-> 1]

\* what the user can put into each of them
FieldValues(k) ==
    CASE k = "openrouter_api_key" -> {"", "sk-or-1"}
      [] k = "binance_testnet"    -> BOOLEAN
      [] k = "per_trade_risk"     -> {1, 2}

FormFields == {"openrouter_api_key", "binance_testnet", "per_trade_risk"}

InitSettings ==
    /\ activeSection = "ai"
    /\ settings = DefaultSettings
    /\ saveMutation = "idle"
    /\ saved = FALSE
    /\ savedTimer = FALSE
    /\ lastPost = [kind |-> "none"]

\* mutation.mutate(variables, options): the library calls mutationFn with the
\* variables alone; the second argument of mutate is its per-call options
MutationFnArgs(variables, options) == <<variables, Undefined>>

\* mutationFn: async (section, data) => axios.post(url, {section, settings: data})
UpdateSettingsBody(section, data) ==
    [kind |-> "object", section |-> section, settings |-> data]

\* JSON.stringify of the body: a property whose value is undefined is left out
ToJson(body) ==
    IF body.settings = Undefined
    THEN [kind |-> "object", section |-> body.section]
    ELSE body

\* handleSave: updateSettingsMutation.mutate(activeSection, settings)
HandleSave ==
    /\ saveMutation = "idle"
    /\ LET args == MutationFnArgs(activeSection, settings)
       IN  lastPost' = ToJson(UpdateSettingsBody(args[1], args[2]))
    /\ saveMutation' = "pending"
    /\ UNCHANGED <<activeSection, settings, saved, savedTimer>>
    /\ UNCHANGED settingsFrame

\* onSuccess: setSaved(true); setTimeout(() => setSaved(false), 3000)
SaveSuccess ==
    /\ saveMutation = "pending"
    /\ saveMutation' = "idle"
    /\ saved' = TRUE
    /\ savedTimer' = TRUE
    /\ UNCHANGED <<activeSection, settings, lastPost>>
    /\ UNCHANGED settingsFrame

SaveFail ==
    /\ saveMutation = "pending"
    /\ saveMutation' = "idle"
    /\ UNCHANGED <<activeSection, settings, saved, savedTimer, lastPost>>
    /\ UNCHANGED settingsFrame

SavedTimerFire ==
    /\ savedTimer
    /\ savedTimer' = FALSE
    /\ saved' = FALSE
    /\ UNCHANGED <<activeSection, settings, saveMutation, lastPost>>
    /\ UNCHANGED settingsFrame

\* a section button of the sidebar
SetActiveSection(sec) ==
    /\ sec # activeSection
    /\ activeSection' = sec
    /\ UNCHANGED <<settings, saveMutation, saved, savedTimer, lastPost>>
    /\ UNCHANGED settingsFrame

\* the user edits a field: setSettings({...settings, [k]: v})
EditSetting(k, v) ==
    /\ settings[k] # v
    /\ settings' = [settings EXCEPT ![k] = v]
    /\ UNCHANGED <<activeSection, saveMutation, saved, savedTimer, lastPost>>
    /\ UNCHANGED settingsFrame

NextSettings ==
    \/ HandleSave
    \/ SaveSuccess
    \/ SaveFail
    \/ SavedTimerFire
    \/ \E sec \in Sections : SetActiveSection(sec)
    \/ \E k \in FormFields : \E v \in FieldValues(k) : EditSetting(k, v)

(***************************************************************************)
(* The v1 Settings page: Test Connection.                                  *)
(***************************************************************************)
\* how many test requests may be in flight at once
MaxTests == 2

testFrame == <<panelVars, analysisVars, wsVars, sysMonVars, monVars, chatVars,
    settingsVars, sqlVars, ohlcvVars, signalVars, shVars, riskVars, cbVars, msgVars, genVars, apiVars, instVars>>

\* three of the fields that get a Test Connection button
TestKeys == {"BINANCE_API_KEY", "OPENROUTER_API_KEY", "FINNHUB_API_KEY"}

\* the provider the button's onClick passes to testConnection
ProviderOf(key) ==
    CASE key = "BINANCE_API_KEY"    -> "binance"
      [] key = "OPENROUTER_API_KEY" -> "openrouter"
      [] OTHER                      -> "unknown"

\* every name connectionStatus is written or read under
StatusNames == TestKeys \cup {ProviderOf(k) : k \in TestKeys}

\* results a test can settle with: the response body of the try branch, or
\* the catch branch's {status: 'error', message: 'Connection failed'}
Outcomes == {"success", "error: Connection failed"}

InitTest ==
    /\ keyValues = [k \in TestKeys |-> ""]
    /\ connectionStatus = [n \in StatusNames |-> "none"]
    /\ testingConnection = "null"
    /\ tests = <<>>
    /\ lastSettled = [key |-> "none", outcome |-> "none"]

\* the button is `disabled={testingConnection === key || !value}`
TestButtonEnabled(key) == testingConnection # key /\ keyValues[key] # ""

\* setConnectionStatus({...connectionStatus, [provider]: result}), where
\* connectionStatus is the value the handler closed over when it was called
StatusAfterTest(closed, provider, result) == [closed EXCEPT ![provider] = result]

\* `connectionStatus[key] && <span>...</span>` beside the field
ShownBeside(key) == connectionStatus[key]

\* the user types into a key field: updateSetting(section, key, value)
EditKey(key, v) ==
    /\ keyValues[key] # v
    /\ keyValues' = [keyValues EXCEPT ![key] = v]
    /\ UNCHANGED <<connectionStatus, testingConnection, tests, lastSettled>>
    /\ UNCHANGED testFrame

\* the effect on [config]: a newly loaded config resets the form
ConfigLoaded ==
    /\ keyValues # [k \in TestKeys |-> ""]
    /\ keyValues' = [k \in TestKeys |-> ""]
    /\ UNCHANGED <<connectionStatus, testingConnection, tests, lastSettled>>
    /\ UNCHANGED testFrame

\* Test Connection beside `key`: testConnection(provider) up to its await
ClickTest(key) ==
    /\ TestButtonEnabled(key)
    /\ Len(tests) < MaxTests
    /\ testingConnection' = ProviderOf(key)
    /\ tests' = Append(tests, [key |-> key, provider |-> ProviderOf(key),
                               closed |-> connectionStatus])
    /\ UNCHANGED <<keyValues, connectionStatus, lastSettled>>
    /\ UNCHANGED testFrame

\* the request settles: the try or the catch branch, then finally
TestSettles(i, outcome) ==
    /\ i \in DOMAIN tests
    /\ connectionStatus' =
           StatusAfterTest(tests[i].closed, tests[i].provider, outcome)
    /\ testingConnection' = "null"
    /\ tests' = [j \in 1..(Len(tests) - 1) |->
                    IF j < i THEN tests[j] ELSE tests[j + 1]]
    /\ lastSettled' = [key |-> tests[i].key, outcome |-> outcome]
    /\ UNCHANGED keyValues
    /\ UNCHANGED testFrame

NextTest ==
    \/ \E key \in TestKeys, v \in {"", "k1"} : EditKey(key, v)
    \/ ConfigLoaded
    \/ \E key \in TestKeys : ClickTest(key)
    \/ \E i \in DOMAIN tests, o \in Outcomes : TestSettles(i, o)

(***************************************************************************)
(* The database scripts: init.sql and migrations/002_agent_evolution.sql.  *)
(* A statement is a record; Exec gives PostgreSQL's effect on the catalog. *)
(***************************************************************************)
\* how many script runs one behaviour may start
MaxRuns == 3

sqlFrame == <<panelVars, analysisVars, wsVars, sysMonVars, monVars, chatVars,
    settingsVars, testVars, ohlcvVars, signalVars, shVars, riskVars, cbVars, msgVars, genVars, apiVars, instVars>>

Stmt(op, ifNotExists, name, table, cols, refs) ==
    [op |-> op, ifNotExists |-> ifNotExists, name |-> name, table |-> table,
     cols |-> cols, refs |-> refs]

CreateExtension(name) == Stmt("extension", TRUE, name, "", {}, {})
CreateTable(name, cols, refs) == Stmt("table", TRUE, name, name, cols, refs)
CreateIndex(ifNotExists, name, table, cols) ==
    Stmt("index", ifNotExists, name, table, cols, {})
CreateHypertable(table, col) == Stmt("hypertable", TRUE, table, table, {col}, {})
AddRetentionPolicy(table) == Stmt("retention", TRUE, table, table, {}, {})

\* ---- init.sql ----
OhlcvColumns ==
    {"time", "symbol", "timeframe", "open", "high", "low", "close", "volume",
     "source"}

InitSignalsColumns ==
    {"signal_id", "created_at", "symbol", "timeframe", "direction",
     "entry_price", "stop_loss", "take_profit_1", "take_profit_2",
     "take_profit_3", "overall_confidence", "confluence_score", "xgb_win_prob",
     "lstm_forecast_24h", "regime", "reasoning", "status", "feature_vector",
     "indicators"}

OutcomesColumns ==
    {"outcome_id", "signal_id", "closed_at", "exit_price", "outcome", "pnl_pct",
     "pnl_r", "holding_hours", "exit_reason"}

ModelMetricsColumns ==
    {"recorded_at", "symbol", "model_type", "win_rate_20", "win_rate_50",
     "win_rate_100", "sharpe_30d", "profit_factor", "avg_r_multiple",
     "total_trades", "model_version"}

InitSql ==
    << CreateExtension("timescaledb"),
       CreateExtension("pgcrypto"),
       CreateTable("market_data_ohlcv", OhlcvColumns, {}),
       CreateHypertable("market_data_ohlcv", "time"),
       CreateIndex(TRUE, "idx_ohlcv_symbol_tf_time", "market_data_ohlcv",
                   {"symbol", "timeframe", "time"}),
       CreateTable("trading_signals", InitSignalsColumns, {}),
       CreateIndex(TRUE, "idx_signals_symbol", "trading_signals",
                   {"symbol", "created_at"}),
       CreateIndex(TRUE, "idx_signals_status", "trading_signals", {"status"}),
       CreateTable("signal_outcomes", OutcomesColumns,
                   {[table |-> "trading_signals", col |-> "signal_id"]}),
       CreateIndex(TRUE, "idx_outcomes_signal", "signal_outcomes", {"signal_id"}),
       CreateTable("model_performance_metrics", ModelMetricsColumns, {}),
       CreateHypertable("model_performance_metrics", "recorded_at"),
       AddRetentionPolicy("market_data_ohlcv") >>

\* ---- migrations/002_agent_evolution.sql ----
EvolutionColumns ==
    {"id", "timestamp", "event_type", "model_name", "change_summary",
     "metrics_before", "metrics_after", "triggered_by"}

MistakesColumns ==
    {"id", "timestamp", "symbol", "direction", "mistake_type", "severity",
     "description", "corrective_action", "trade_entry_price",
     "trade_exit_price", "trade_pnl", "indicators_snapshot"}

SnapshotsColumns ==
    {"id", "timestamp", "win_rate", "total_trades", "winning_trades",
     "losing_trades", "total_pnl", "max_drawdown_pct", "sharpe_ratio", "avg_rr",
     "profit_factor"}

MigrationSignalsColumns ==
    {"id", "timestamp", "symbol", "direction", "signal_type", "entry_price",
     "stop_loss", "take_profit", "position_size", "risk_pct", "risk_reward",
     "confidence", "consensus_score", "agreement_count", "status", "exit_price",
     "exit_reason", "pnl", "reasons"}

Migration002 ==
    << CreateTable("agent_evolution", EvolutionColumns, {}),
       CreateIndex(FALSE, "idx_evolution_ts", "agent_evolution", {"timestamp"}),
       CreateIndex(FALSE, "idx_evolution_model", "agent_evolution", {"model_name"}),
       CreateTable("trading_mistakes", MistakesColumns, {}),
       CreateIndex(FALSE, "idx_mistakes_ts", "trading_mistakes", {"timestamp"}),
       CreateIndex(FALSE, "idx_mistakes_symbol", "trading_mistakes", {"symbol"}),
       CreateIndex(FALSE, "idx_mistakes_type", "trading_mistakes", {"mistake_type"}),
       CreateTable("performance_snapshots", SnapshotsColumns, {}),
       CreateIndex(FALSE, "idx_perf_ts", "performance_snapshots", {"timestamp"}),
       CreateTable("trading_signals", MigrationSignalsColumns, {}),
       CreateIndex(FALSE, "idx_signals_ts", "trading_signals", {"timestamp"}),
       CreateIndex(FALSE, "idx_signals_symbol", "trading_signals", {"symbol"}),
       CreateIndex(FALSE, "idx_signals_status", "trading_signals", {"status"}) >>

Scripts == {"init", "migration"}

Script(s) == IF s = "init" THEN InitSql ELSE Migration002

AllStatements ==
    {InitSql[i] : i \in DOMAIN InitSql} \cup {Migration002[i] : i \in DOMAIN Migration002}

TableNames == {st.name : st \in {x \in AllStatements : x.op = "table"}}

IndexNames == {st.name : st \in {x \in AllStatements : x.op = "index"}}

\* ---- the catalog ----
NoIndex == [table |-> "", cols |-> {}]

\* a table is present when it has columns
EmptyDb ==
    [tables |-> [t \in TableNames |-> {}],
     indexes |-> [n \in IndexNames |-> NoIndex],
     extensions |-> {}, hypertables |-> {}, policies |-> {}]

TableExists(d, t) == t \in TableNames /\ d.tables[t] # {}

IndexExists(d, n) == n \in IndexNames /\ d.indexes[n] # NoIndex

\* the effect of one statement: the catalog after it, and whether it succeeded
Exec(d, st) ==
    CASE st.op = "extension" ->
           [db |-> [d EXCEPT !.extensions = @ \cup {st.name}], ok |-> TRUE]
      [] st.op = "table" ->
           IF TableExists(d, st.name)
           THEN [db |-> d, ok |-> TRUE]     \* IF NOT EXISTS: skipped with a notice
           ELSE IF \A r \in st.refs :
                      TableExists(d, r.table) /\ r.col \in d.tables[r.table]
                THEN [db |-> [d EXCEPT !.tables[st.name] = st.cols], ok |-> TRUE]
                ELSE [db |-> d, ok |-> FALSE]
      [] st.op = "index" ->
           IF ~TableExists(d, st.table)
           THEN [db |-> d, ok |-> FALSE]    \* relation does not exist
           ELSE IF IndexExists(d, st.name)
                THEN [db |-> d, ok |-> st.ifNotExists]  \* already exists
                ELSE IF st.cols \subseteq d.tables[st.table]
                     THEN [db |-> [d EXCEPT !.indexes[st.name] =
                                      [table |-> st.table, cols |-> st.cols]],
                           ok |-> TRUE]
                     ELSE [db |-> d, ok |-> FALSE]  \* column does not exist
      [] st.op = "hypertable" ->
           IF TableExists(d, st.table) /\ st.cols \subseteq d.tables[st.table]
           THEN [db |-> [d EXCEPT !.hypertables = @ \cup {st.table}], ok |-> TRUE]
           ELSE [db |-> d, ok |-> FALSE]
      [] st.op = "retention" ->
           IF st.table \in d.hypertables
           THEN [db |-> [d EXCEPT !.policies = @ \cup {st.table}], ok |-> TRUE]
           ELSE [db |-> d, ok |-> FALSE]

\* what a script declares is in the catalog as declared
Declared(d, script) ==
    \A i \in DOMAIN script :
        LET st == script[i]
        IN  /\ st.op = "table" => d.tables[st.name] = st.cols
            /\ st.op = "index" =>
                   d.indexes[st.name] = [table |-> st.table, cols |-> st.cols]

\* how the client treats a failed statement: psql goes on to the next one,
\* psql with ON_ERROR_STOP stops, a single transaction is rolled back
Modes == {"continue", "stop", "transaction"}

NoRun ==
    [script |-> "none", mode |-> "continue", pc |-> 1, errors |-> {},
     state |-> "finished", afterInit |-> FALSE, snapshot |-> EmptyDb]

InitDb ==
    /\ db = EmptyDb
    /\ run = NoRun
    /\ runCount = 0
    /\ initApplied = FALSE

\* a script is handed to the client
StartScript(s, mode) ==
    /\ run.state # "running"
    /\ runCount < MaxRuns
    /\ run' = [script |-> s, mode |-> mode, pc |-> 1, errors |-> {},
               state |-> "running", afterInit |-> initApplied, snapshot |-> db]
    /\ runCount' = runCount + 1
    /\ UNCHANGED <<db, initApplied>>
    /\ UNCHANGED sqlFrame

\* the client sends the next statement; after the last one the run is finished
ExecNext ==
    /\ run.state = "running"
    /\ LET script == Script(run.script)
           r == Exec(db, script[run.pc])
           last == run.pc = Len(script)
       IN  IF r.ok
           THEN /\ db' = r.db
                /\ run' = [run EXCEPT !.pc = @ + 1,
                                      !.state = IF last THEN "finished" ELSE @]
                /\ initApplied' = (initApplied \/ (last /\ run.script = "init"))
           ELSE IF run.mode = "continue"
           THEN /\ db' = db
                /\ run' = [run EXCEPT !.pc = @ + 1, !.errors = @ \cup {run.pc},
                                      !.state = IF last THEN "finished" ELSE @]
                /\ initApplied' = (initApplied \/ (last /\ run.script = "init"))
           ELSE /\ db' = IF run.mode = "transaction" THEN run.snapshot ELSE db
                /\ run' = [run EXCEPT !.errors = @ \cup {run.pc},
                                      !.state = "aborted"]
                /\ UNCHANGED initApplied
    /\ UNCHANGED runCount
    /\ UNCHANGED sqlFrame

NextSql ==
    \/ \E s \in Scripts, mode \in Modes : StartScript(s, mode)
    \/ ExecNext

(***************************************************************************)
(* Rows of market_data_ohlcv, as init.sql creates the table on a fresh     *)
(* database: PRIMARY KEY (time, symbol, timeframe), a hypertable on time   *)
(* with a retention policy.                                                *)
(***************************************************************************)
\* how many rows the table may hold
MaxRows == 3

\* the latest bar time a behaviour inserts
MaxTime == 2

ohlcvFrame == <<panelVars, analysisVars, wsVars, sysMonVars, monVars, chatVars,
    settingsVars, testVars, sqlVars, signalVars, shVars, riskVars, cbVars, msgVars, genVars, apiVars, instVars>>

\* PRIMARY KEY (time, symbol, timeframe)
OhlcvPrimaryKey == {"time", "symbol", "timeframe"}

\* the rows a client may try to insert: two bars, two symbols, two
\* timeframes, two closing prices
OhlcvCandidates ==
    [time : 1..MaxTime, symbol : {"EURUSD", "GBPUSD"}, timeframe : {"1h", "4h"},
     close : {100, 101}]

\* the row's value of the key columns
KeyOf(row, key) == [c \in key |-> row[c]]

\* unique-key check free of any key: nothing ever conflicts
KeyConflictNever(rows, row, key) == FALSE

\* the unique index behind the primary key: a row with this key is there
KeyConflict(rows, row, key) ==
    \E i \in DOMAIN rows : KeyOf(rows[i], key) = KeyOf(row, key)

\* INSERT INTO market_data_ohlcv VALUES (row): the table after it
OhlcvAfterInsert(rows, row) ==
    IF KeyConflict(rows, row, OhlcvPrimaryKey) THEN rows ELSE Append(rows, row)

RECURSIVE KeepRows(_, _)
\* the rows of a table with the rows of one bar time left out
KeepRows(rows, t) ==
    IF rows = <<>> THEN <<>>
    ELSE IF Head(rows).time = t THEN KeepRows(Tail(rows), t)
         ELSE <<Head(rows)>> \o KeepRows(Tail(rows), t)

InitOhlcv ==
    /\ ohlcvRows = <<>>
    /\ ohlcvResult = [op |-> "none", ok |-> TRUE, time |-> 0]

\* a client inserts one row
InsertOhlcv(row) ==
    /\ Len(ohlcvRows) < MaxRows
    /\ ohlcvRows' = OhlcvAfterInsert(ohlcvRows, row)
    /\ ohlcvResult' = [op |-> "insert", row |-> row,
                       ok |-> ~KeyConflict(ohlcvRows, row, OhlcvPrimaryKey)]
    /\ UNCHANGED ohlcvFrame

\* the retention policy drops the chunk of one (old) bar time
RetentionDrop(t) ==
    /\ \E i \in DOMAIN ohlcvRows : ohlcvRows[i].time = t
    /\ ohlcvRows' = KeepRows(ohlcvRows, t)
    /\ ohlcvResult' = [op |-> "retention", ok |-> TRUE, time |-> t]
    /\ UNCHANGED ohlcvFrame

NextOhlcv ==
    \/ \E row \in OhlcvCandidates : InsertOhlcv(row)
    \/ \E t \in 1..MaxTime : RetentionDrop(t)

(***************************************************************************)
(* Rows of trading_signals and signal_outcomes, as init.sql creates the    *)
(* tables on a fresh database.                                             *)
(***************************************************************************)
\* how many different signal_id values there are
MaxSignals == 2

\* how many different outcome_id values there are
MaxOutcomes == 2

signalFrame == <<panelVars, analysisVars, wsVars, sysMonVars, monVars, chatVars,
    settingsVars, testVars, sqlVars, ohlcvVars, shVars, riskVars, cbVars, msgVars, genVars, apiVars, instVars>>

\* the NULL of a column that is not declared NOT NULL
SqlNull == 0

SignalIds == 1..MaxSignals

OutcomeIds == 1..MaxOutcomes

\* signal_id UUID REFERENCES trading_signals(signal_id): the values the
\* column accepts; a NULL satisfies the foreign key
ForeignKeyHolds(signals, sid) == sid = SqlNull \/ sid \in signals

\* the default ON DELETE NO ACTION: a referenced row cannot be deleted
Referenced(outcomes, sid) == \E o \in outcomes : o.signal_id = sid

InitSignals ==
    /\ signalRows = {}
    /\ outcomeRows = {}
    /\ signalResult = [op |-> "none", id |-> 0, ok |-> TRUE]

\* INSERT INTO trading_signals: signal_id is the primary key
InsertSignal(sid) ==
    /\ signalRows' = signalRows \cup {sid}
    /\ signalResult' = [op |-> "insert signal", id |-> sid, ok |-> sid \notin signalRows]
    /\ UNCHANGED outcomeRows
    /\ UNCHANGED signalFrame

\* DELETE FROM trading_signals WHERE signal_id = sid
DeleteSignal(sid) ==
    /\ sid \in signalRows
    /\ signalRows' = IF Referenced(outcomeRows, sid) THEN signalRows
                     ELSE signalRows \ {sid}
    /\ signalResult' = [op |-> "delete signal", id |-> sid,
                        ok |-> ~Referenced(outcomeRows, sid)]
    /\ UNCHANGED outcomeRows
    /\ UNCHANGED signalFrame

\* INSERT INTO signal_outcomes (outcome_id, signal_id): outcome_id is the
\* primary key, signal_id the foreign key
InsertOutcome(oid, sid) ==
    /\ LET ok == (\A o \in outcomeRows : o.outcome_id # oid)
                 /\ ForeignKeyHolds(signalRows, sid)
       IN  /\ outcomeRows' = IF ok
                             THEN outcomeRows \cup {[outcome_id |-> oid, signal_id |-> sid]}
                             ELSE outcomeRows
           /\ signalResult' = [op |-> "insert outcome", id |-> oid, ok |-> ok]
    /\ UNCHANGED signalRows
    /\ UNCHANGED signalFrame

\* DELETE FROM signal_outcomes WHERE outcome_id = oid
DeleteOutcome(oid) ==
    /\ \E o \in outcomeRows : o.outcome_id = oid
    /\ outcomeRows' = {o \in outcomeRows : o.outcome_id # oid}
    /\ signalResult' = [op |-> "delete outcome", id |-> oid, ok |-> TRUE]
    /\ UNCHANGED signalRows
    /\ UNCHANGED signalFrame

NextSignals ==
    \/ \E sid \in SignalIds : InsertSignal(sid)
    \/ \E sid \in SignalIds : DeleteSignal(sid)
    \/ \E oid \in OutcomeIds, sid \in SignalIds \cup {SqlNull} : InsertOutcome(oid, sid)
    \/ \E oid \in OutcomeIds : DeleteOutcome(oid)

(***************************************************************************)
(* The shell test scripts: scripts/test.sh of trading-agent and the test   *)
(* suite of trading-agent-pro-v2.  A script is a sequence of commands; an  *)
(* `if` command tests a condition of the machine and counts the result.    *)
(***************************************************************************)
shFrame == <<panelVars, analysisVars, wsVars, sysMonVars, monVars, chatVars,
    settingsVars, testVars, sqlVars, ohlcvVars, signalVars, riskVars, cbVars, msgVars, genVars, apiVars, instVars>>

\* an `if` whose branches count a result; with a gate it sits inside the
\* then-branch of the gate's `if`; onFail says which counter the else-branch
\* increments
If(group, name, gate, onFail) ==
    [kind |-> "if", group |-> group, name |-> name, gate |-> gate, onFail |-> onFail]

\* a plain command such as cd or source
Cmd(group, name, gate) ==
    [kind |-> "cmd", group |-> group, name |-> name, gate |-> gate, onFail |-> "failed"]

Summary == [kind |-> "summary", group |-> "summary", name |-> "summary", gate |-> "",
            onFail |-> "failed"]

\* scripts/test.sh: main's seven groups in the order main calls them
TestSh ==
    << If("python", "python", "", "failed"),
       If("node", "node", "", "failed"),
       If("directories", "backend/app", "", "failed"),
       If("directories", "frontend/src", "", "failed"),
       If("directories", "backend/logs", "", "failed"),
       If("config", "backend/.env", "", "failed"),
       If("config", "frontend/.env", "", "failed"),
       Cmd("backend deps", "cd backend", ""),
       If("backend deps", "venv", "", "failed"),
       Cmd("backend deps", "source activate", "venv"),
       If("backend deps", "import fastapi", "venv", "failed"),
       If("backend deps", "import playwright", "venv", "failed"),
       If("backend deps", "import binance", "venv", "failed"),
       If("backend deps", "import google.generativeai", "venv", "failed"),
       If("backend deps", "import groq", "venv", "failed"),
       Cmd("backend deps", "cd ..", ""),
       Cmd("frontend deps", "cd frontend", ""),
       If("frontend deps", "node_modules", "", "failed"),
       If("frontend deps", "node_modules/react", "node_modules", "failed"),
       If("frontend deps", "node_modules/@tanstack/react-query", "node_modules", "failed"),
       Cmd("frontend deps", "cd ..", ""),
       If("api", "curl /health", "", "failed"),
       If("api", "curl /api/v1/config", "curl /health", "failed"),
       Summary >>

\* the v2 test suite: TEST 1/10 .. TEST 10/10; the else-branches of tests
\* 6, 9 and 10 print [WARN] and increment passed
TestSuiteV2 ==
    << If("1", "python", "", "failed"),
       If("2", "node", "", "failed"),
       If("3", "venv", "", "failed"),
       Cmd("4", "source venv/bin/activate", ""),
       If("4", "import fastapi", "", "failed"),
       If("5", "frontend/node_modules", "", "failed"),
       If("6", ".env", "", "passed"),
       Cmd("7", "mkdir -p data logs screenshots", ""),
       If("7", "data logs screenshots", "", "failed"),
       If("8", "from app.config import settings", "", "failed"),
       Cmd("9", "source venv/bin/activate", ""),
       Cmd("9", "cd backend", ""),
       If("9", "curl /health", "", "passed"),
       Cmd("9", "cd ..", ""),
       Cmd("10", "cd frontend", ""),
       If("10", "npm run build", "", "passed"),
       Cmd("10", "cd ..", ""),
       Summary >>

ShScripts == {"test.sh", "v2 test suite"}

ShCommands(script) == IF script = "test.sh" THEN TestSh ELSE TestSuiteV2

\* the conditions a script tests
Conditions(script) ==
    {ShCommands(script)[i].name :
        i \in {j \in DOMAIN ShCommands(script) : ShCommands(script)[j].kind = "if"}}

\* test.sh starts with `set -e`; the v2 suite does not
ErrExit(script) == script = "test.sh"

\* the exit status of `((x++))`: 1 when the expression's value, the old x,
\* is 0, and 0 otherwise
ArithStatus(old) == IF old = 0 THEN 1 ELSE 0

\* the last command of test.sh is `exit 0` or `exit 1`; the v2 suite ends
\* with an echo
SummaryStatus(script, failed) ==
    IF script = "test.sh" /\ failed # 0 THEN 1 ELSE 0

InitShell ==
    /\ shScript = "none"
    /\ shEnv = {}
    /\ shPc = 1
    /\ testsPassed = 0
    /\ testsFailed = 0
    /\ shState = "idle"
    /\ shExit = 0
    /\ shSummary = FALSE
    /\ shAllPassed = FALSE

\* the user runs a script on a machine where the conditions in env hold
ShStart(script, env) ==
    /\ shState = "idle"
    /\ shScript' = script
    /\ shEnv' = env
    /\ shState' = "running"
    /\ UNCHANGED <<shPc, testsPassed, testsFailed, shExit, shSummary, shAllPassed>>
    /\ UNCHANGED shFrame

\* the shell goes on to the next command, or exits with a status
ShContinue(st) ==
    IF ErrExit(shScript) /\ st # 0
    THEN /\ shState' = "exited"
         /\ shExit' = st
         /\ UNCHANGED shPc
    ELSE /\ shPc' = shPc + 1
         /\ UNCHANGED <<shState, shExit>>

\* the shell executes the next command of the script
ShStep ==
    /\ shState = "running"
    /\ LET c == ShCommands(shScript)[shPc]
       IN  IF c.gate # "" /\ c.gate \notin shEnv
           THEN \* inside a then-branch that is not taken
                /\ shPc' = shPc + 1
                /\ UNCHANGED <<testsPassed, testsFailed, shState, shExit,
                               shSummary, shAllPassed>>
           ELSE CASE c.kind = "if" ->
                     IF c.name \in shEnv \/ c.onFail = "passed"
                     THEN /\ testsPassed' = testsPassed + 1
                          /\ ShContinue(ArithStatus(testsPassed))
                          /\ UNCHANGED <<testsFailed, shSummary, shAllPassed>>
                     ELSE /\ testsFailed' = testsFailed + 1
                          /\ ShContinue(ArithStatus(testsFailed))
                          /\ UNCHANGED <<testsPassed, shSummary, shAllPassed>>
                  [] c.kind = "cmd" ->
                     /\ \E st \in {0, 1} : ShContinue(st)
                     /\ UNCHANGED <<testsPassed, testsFailed, shSummary, shAllPassed>>
                  [] c.kind = "summary" ->
                     /\ shSummary' = TRUE
                     /\ shAllPassed' = (testsFailed = 0)
                     /\ shState' = "exited"
                     /\ shExit' = SummaryStatus(shScript, testsFailed)
                     /\ UNCHANGED <<shPc, testsPassed, testsFailed>>
    /\ UNCHANGED <<shScript, shEnv>>
    /\ UNCHANGED shFrame

NextShell ==
    \/ /\ shState = "idle"
       /\ \E script \in ShScripts :
              \E env \in SUBSET Conditions(script) : ShStart(script, env)
    \/ ShStep

(***************************************************************************)
(* RiskManager and MT5Client.place_order.  Prices are in points of 0.0001, *)
(* lot sizes in hundredths of a lot, money in cents where noted.           *)
(***************************************************************************)
riskFrame == <<panelVars, analysisVars, wsVars, sysMonVars, monVars, chatVars,
    settingsVars, testVars, sqlVars, ohlcvVars, signalVars, shVars, cbVars, msgVars, genVars, apiVars, instVars>>

\* config.get('risk_per_trade_pct', 1.0)
RiskPerTradePct == 1

\* config.get('max_position_size', 1.0), in hundredths of a lot
MaxPositionSize == 100

\* config.get('account_balance', 10000.0)
DefaultBalance == 10000

\* lot_size = max(lot_size, 0.01), in hundredths of a lot
MinLot == 1

\* pip_value_per_lot = 10
PipValuePerLot == 10

RiskSymbols == {"EURUSD", "USDJPY"}

\* prices a caller passes: 1.1000 .. 1.3000 for EURUSD, 150.00 .. 151.00
\* for USDJPY
RiskPrices(symbol) ==
    IF symbol = "USDJPY" THEN {1500000, 1502000, 1510000}
    ELSE {11000, 11015, 11020, 11100, 13000}

Balances == {5000, 10000, 20000}

Abs(x) == IF x < 0 THEN -x ELSE x

Min(a, b) == IF a < b THEN a ELSE b

Max(a, b) == IF a > b THEN a ELSE b

\* round(n / d) to an integer as Python rounds: to nearest, ties to even
RoundHalfEven(n, d) ==
    LET q == n \div d
        r == n % d
    IN  IF 2 * r > d THEN q + 1
        ELSE IF 2 * r < d THEN q
        ELSE IF q % 2 = 0 THEN q ELSE q + 1

\* _get_pip_value: 0.01 for a JPY symbol, 0.0001 otherwise, in points;
\* the symbols here contain 'JPY' exactly when they are USDJPY
GetPipValue(symbol) == IF symbol = "USDJPY" THEN 100 ELSE 1

\* account_balance * (risk_per_trade_pct / 100), in cents
MaxRiskCents(balance) == balance * RiskPerTradePct

\* calculate_risk_amount(entry, sl, lot_size), in cents:
\* abs(entry - sl) / 0.0001 * 10 * lot_size
CalculateRiskAmount(entry, sl, lot) == Abs(entry - sl) * PipValuePerLot * lot

\* calculate_position_size(symbol, entry_price, stop_loss) in hundredths of a
\* lot: risk_amount / (sl_distance_pips * pip_value_per_lot), at most
\* max_position_size, at least 0.01, rounded to two decimals; the division
\* by a zero distance raises and the except branch returns 0.01
CalculatePositionSize(balance, symbol, entry, sl) ==
    LET dist == Abs(entry - sl)
        \* lot_size * 100 = n / d
        n == MaxRiskCents(balance) * GetPipValue(symbol)
        d == dist * PipValuePerLot
    IN  IF dist = 0 THEN MinLot
        ELSE IF n >= MaxPositionSize * d THEN MaxPositionSize
        ELSE IF n <= MinLot * d THEN MinLot
        ELSE RoundHalfEven(n, d)

\* validate_trade(symbol, direction, entry_price, stop_loss, lot_size)
ValidateTrade(balance, direction, entry, sl, lot) ==
    /\ ~(lot > MaxPositionSize)
    /\ ~(sl = 0 \/ sl = entry)
    /\ ~(direction = "BUY" /\ sl >= entry)
    /\ ~(direction = "SELL" /\ sl <= entry)
    /\ ~(2 * CalculateRiskAmount(entry, sl, lot) > 3 * MaxRiskCents(balance))

\* an order_request dictionary: `has` holds those of the optional keys 'sl'
\* and 'tp' that are present
OrderRequest(symbol, type, volume, has, sl, tp) ==
    [symbol |-> symbol, type |-> type, volume |-> volume, has |-> has,
     sl |-> sl, tp |-> tp]

\* order_request.get(key, default) for an optional key
DictGet(req, key, default) == IF key \in req.has THEN req[key] ELSE default

\* the dictionaries a caller passes to place_order: 'sl' and 'tp' may be
\* missing, 0.0 or a price
OrderRequests ==
    {OrderRequest(symbol, type, volume, has,
                  IF "sl" \in has THEN sl ELSE 0, IF "tp" \in has THEN tp ELSE 0) :
        symbol \in RiskSymbols, type \in {"BUY", "SELL"}, volume \in {1, 50},
        has \in SUBSET {"sl", "tp"}, sl \in {0, 10900, 11100}, tp \in {0, 10800, 11200}}

\* the request place_order builds for mt5.order_send
Mt5Request(req) ==
    [action |-> "TRADE_ACTION_DEAL", symbol |-> req.symbol,
     volume |-> req.volume, type |-> req.type,
     sl |-> DictGet(req, "sl", 0), tp |-> DictGet(req, "tp", 0)]

NoOrder == [sent |-> FALSE, success |-> FALSE]

InitRisk ==
    /\ accountBalance = DefaultBalance
    /\ riskResult = [op |-> "none"]
    /\ orderResult = NoOrder

\* update_account_balance(new_balance)
UpdateAccountBalance(b) ==
    /\ b # accountBalance
    /\ accountBalance' = b
    /\ UNCHANGED <<riskResult, orderResult>>
    /\ UNCHANGED riskFrame

\* a call of calculate_position_size
CallCalculatePositionSize(symbol, entry, sl) ==
    /\ riskResult' = [op |-> "calculate_position_size", symbol |-> symbol,
                      entry |-> entry, sl |-> sl,
                      lot |-> CalculatePositionSize(accountBalance, symbol, entry, sl)]
    /\ UNCHANGED <<accountBalance, orderResult>>
    /\ UNCHANGED riskFrame

\* a call of validate_trade
CallValidateTrade(symbol, direction, entry, sl, lot) ==
    /\ riskResult' = [op |-> "validate_trade", symbol |-> symbol,
                      direction |-> direction, entry |-> entry, sl |-> sl,
                      lot |-> lot,
                      valid |-> ValidateTrade(accountBalance, direction, entry, sl, lot)]
    /\ UNCHANGED <<accountBalance, orderResult>>
    /\ UNCHANGED riskFrame

\* a call of place_order: without a tick nothing is sent; otherwise the
\* request goes to mt5.order_send, which returns None, a failure code or done
PlaceOrder(req, tick, retcode) ==
    /\ orderResult' =
         IF ~tick THEN NoOrder
         ELSE [sent |-> TRUE, request |-> Mt5Request(req),
               success |-> retcode = "TRADE_RETCODE_DONE"]
    /\ UNCHANGED <<accountBalance, riskResult>>
    /\ UNCHANGED riskFrame

NextRisk ==
    \/ \E b \in Balances : UpdateAccountBalance(b)
    \/ \E symbol \in RiskSymbols :
         \E entry, sl \in RiskPrices(symbol) :
            CallCalculatePositionSize(symbol, entry, sl)
    \/ \E symbol \in RiskSymbols, direction \in {"BUY", "SELL"}, lot \in {1, 50, 150} :
         \E entry \in RiskPrices(symbol), sl \in RiskPrices(symbol) \cup {0} :
            CallValidateTrade(symbol, direction, entry, sl, lot)

NextOrders ==
    \E req \in OrderRequests, tick \in BOOLEAN,
       retcode \in {"None", "TRADE_RETCODE_REJECT", "TRADE_RETCODE_DONE"} :
         PlaceOrder(req, tick, retcode)

(***************************************************************************)
(* The circuit breaker (backend/app/risk/circuit_breaker.py), as the       *)
(* README describes it: it triggers at 2% daily loss, stops all trading    *)
(* and needs a manual reset; it keeps daily statistics.  Money is in units *)
(* of 100 dollars.                                                         *)
(***************************************************************************)
cbFrame == <<panelVars, analysisVars, wsVars, sysMonVars, monVars, chatVars,
    settingsVars, testVars, sqlVars, ohlcvVars, signalVars, shVars, riskVars, msgVars, genVars, apiVars, instVars>>

\* 'max_daily_drawdown_pct': 2.0
MaxDailyDrawdownPct == 2

\* how many orders one behaviour may place
MaxOrders == 3

\* how far the balance may move from where it started, in units of 100 dollars
MaxMove == 4

\* the account at the start, in units of 100 dollars (10000 dollars)
CbStartBalance == 100

CbAgents == {"agent1", "agent2"}

\* profit or loss of one closed trade, in units of 100 dollars
CbPnls == {-2, -1, 1}

\* the day's loss: how far the balance is below the balance the day began with
DailyLoss(balance, dayStart) == dayStart - balance

\* the breaker triggers at 2% daily loss, counting "exceeds" only
DrawdownReachedAbove(balance, dayStart) ==
    DailyLoss(balance, dayStart) * 100 > MaxDailyDrawdownPct * dayStart

\* the breaker triggers at 2% daily loss
DrawdownReached(balance, dayStart) ==
    DailyLoss(balance, dayStart) * 100 >= MaxDailyDrawdownPct * dayStart

InitCb ==
    /\ cbBalance = CbStartBalance
    /\ cbDayStart = CbStartBalance
    /\ cbTripped = FALSE
    /\ cbOpen = [a \in CbAgents |-> 0]
    /\ cbPlaced = 0
    /\ cbLastOp = "none"

\* an agent places an order: the breaker stops all trading while tripped
CbPlaceOrder(agent) ==
    /\ ~cbTripped
    /\ cbPlaced < MaxOrders
    /\ cbOpen' = [cbOpen EXCEPT ![agent] = cbOpen[agent] + 1]
    /\ cbPlaced' = cbPlaced + 1
    /\ cbLastOp' = "order"
    /\ UNCHANGED <<cbBalance, cbDayStart, cbTripped>>
    /\ UNCHANGED cbFrame

\* a position of an agent closes with a profit or a loss: the daily
\* statistics follow and the breaker trips when the day's loss reaches 2%
CbRecordTrade(agent, pnl) ==
    /\ cbOpen[agent] > 0
    /\ Abs(cbBalance + pnl - CbStartBalance) <= MaxMove
    /\ cbBalance' = cbBalance + pnl
    /\ cbOpen' = [cbOpen EXCEPT ![agent] = cbOpen[agent] - 1]
    /\ cbTripped' = (cbTripped \/ DrawdownReached(cbBalance + pnl, cbDayStart))
    /\ cbLastOp' = "trade"
    /\ UNCHANGED <<cbDayStart, cbPlaced>>
    /\ UNCHANGED cbFrame

\* a new trading day: the daily statistics restart, a tripped breaker stays
\* tripped
CbNewDay ==
    /\ cbDayStart # cbBalance
    /\ cbDayStart' = cbBalance
    /\ cbLastOp' = "new_day"
    /\ UNCHANGED <<cbBalance, cbTripped, cbOpen, cbPlaced>>
    /\ UNCHANGED cbFrame

\* the operator resets the tripped breaker; the day's loss counts from here
CbManualReset ==
    /\ cbTripped
    /\ cbTripped' = FALSE
    /\ cbDayStart' = cbBalance
    /\ cbLastOp' = "manual_reset"
    /\ UNCHANGED <<cbBalance, cbOpen, cbPlaced>>
    /\ UNCHANGED cbFrame

NextCb ==
    \/ \E agent \in CbAgents : CbPlaceOrder(agent)
    \/ \E agent \in CbAgents, pnl \in CbPnls : CbRecordTrade(agent, pnl)
    \/ CbNewDay
    \/ CbManualReset

(***************************************************************************)
(* The Chat page: the conversation.  A message is a record of its role,    *)
(* its kind and the number of the send it belongs to (0 for the welcome    *)
(* message and for messages of the stored history).                        *)
(***************************************************************************)
msgFrame == <<panelVars, analysisVars, wsVars, sysMonVars, monVars, chatVars,
    settingsVars, testVars, sqlVars, ohlcvVars, signalVars, shVars, riskVars, cbVars, genVars, apiVars, instVars>>

\* how many messages one behaviour may send
MaxSends == 2

\* how many chat-history requests one behaviour may make
MaxHistoryFetches == 2

Message(role, kind, send, content) ==
    [role |-> role, kind |-> kind, send |-> send, content |-> content]

\* useState's initial message list
WelcomeMessages == << Message("assistant", "welcome", 0, "welcome") >>

\* what the user may type: nothing, blanks, text after a blank
Inputs == {"", " ", " hi"}

\* input.trim()
Trim(str) ==
    CASE str = " "   -> ""
      [] str = " hi" -> "hi"
      [] OTHER       -> str

\* what GET /chat/history may answer: nothing stored, or a stored conversation
Histories ==
    { <<>>,
      << Message("user", "history", 0, "old question"),
         Message("assistant", "history", 0, "old answer") >> }

\* sendMessageMutation.isPending: the observer follows the latest mutate()
SendIsPending == lastSent \in sendPending

\* the Send button's `disabled={!input.trim() || sendMessageMutation.isPending}`
SendButtonEnabled == Trim(input) # "" /\ ~SendIsPending

\* the 'Restore history' effect: a non-empty history replaces the list
MessagesAfterHistory(cur, history) ==
    IF Len(history) > 0 THEN history ELSE cur

\* onSuccess appends the reply, onError an 'Error: ...' message
AssistantMessage(n, outcome) ==
    IF outcome = "success" THEN Message("assistant", "reply", n, "reply")
    ELSE Message("assistant", "error", n, "Error: failed")

InitMsgs ==
    /\ messages = WelcomeMessages
    /\ input = ""
    /\ sendPending = {}
    /\ lastSent = 0
    /\ nextSend = 1
    /\ historyFetch = "fetching"
    /\ historyFetches = 1

\* the textarea's onChange
TypeInput(str) ==
    /\ str # input
    /\ input' = str
    /\ UNCHANGED <<messages, sendPending, lastSent, nextSend, historyFetch, historyFetches>>
    /\ UNCHANGED msgFrame

\* handleSend
HandleSend ==
    IF Trim(input) = ""
    THEN UNCHANGED <<messages, input, sendPending, lastSent, nextSend>>
    ELSE /\ messages' = Append(messages, Message("user", "user", nextSend, input))
         /\ sendPending' = sendPending \cup {nextSend}
         /\ lastSent' = nextSend
         /\ nextSend' = nextSend + 1
         /\ input' = ""

\* the Send button is clicked
ClickSend ==
    /\ SendButtonEnabled
    /\ nextSend <= MaxSends
    /\ HandleSend
    /\ UNCHANGED <<historyFetch, historyFetches>>
    /\ UNCHANGED msgFrame

\* handleKeyPress: Enter without Shift sends, whatever the button shows
PressEnter(shiftKey) ==
    /\ nextSend <= MaxSends
    /\ IF shiftKey
       THEN UNCHANGED <<messages, input, sendPending, lastSent, nextSend>>
       ELSE HandleSend
    /\ UNCHANGED <<historyFetch, historyFetches>>
    /\ UNCHANGED msgFrame

\* the callbacks given to mutate() instead of useMutation(): they run for
\* the latest mutate() only
SendSettlesLatestOnly(n, outcome) ==
    /\ n \in sendPending
    /\ sendPending' = sendPending \ {n}
    /\ messages' = IF n = lastSent THEN Append(messages, AssistantMessage(n, outcome))
                   ELSE messages
    /\ UNCHANGED <<input, lastSent, nextSend, historyFetch, historyFetches>>
    /\ UNCHANGED msgFrame

\* POST /chat/message of send n settles: the onSuccess or onError given to
\* useMutation runs, for every mutate() call
SendSettles(n, outcome) ==
    /\ n \in sendPending
    /\ sendPending' = sendPending \ {n}
    /\ messages' = Append(messages, AssistantMessage(n, outcome))
    /\ UNCHANGED <<input, lastSent, nextSend, historyFetch, historyFetches>>
    /\ UNCHANGED msgFrame

\* GET /chat/history answers: chatHistory changes and the effect runs
HistoryArrives(history) ==
    /\ historyFetch = "fetching"
    /\ historyFetch' = "idle"
    /\ messages' = MessagesAfterHistory(messages, history)
    /\ UNCHANGED <<input, sendPending, lastSent, nextSend, historyFetches>>
    /\ UNCHANGED msgFrame

\* GET /chat/history fails: chatHistory stays as it is
HistoryFails ==
    /\ historyFetch = "fetching"
    /\ historyFetch' = "idle"
    /\ UNCHANGED <<messages, input, sendPending, lastSent, nextSend, historyFetches>>
    /\ UNCHANGED msgFrame

\* the query refetches (the network reconnects)
HistoryRefetch ==
    /\ historyFetch = "idle"
    /\ historyFetches < MaxHistoryFetches
    /\ historyFetch' = "fetching"
    /\ historyFetches' = historyFetches + 1
    /\ UNCHANGED <<messages, input, sendPending, lastSent, nextSend>>
    /\ UNCHANGED msgFrame

NextMsgs ==
    \/ \E str \in Inputs : TypeInput(str)
    \/ ClickSend
    \/ \E shiftKey \in BOOLEAN : PressEnter(shiftKey)
    \/ \E n \in sendPending, outcome \in {"success", "error"} : SendSettles(n, outcome)
    \/ \E history \in Histories : HistoryArrives(history)
    \/ HistoryFails
    \/ HistoryRefetch

(***************************************************************************)
(* The Signals page and its useGenerateSignal query.                       *)
(***************************************************************************)
genFrame == <<panelVars, analysisVars, wsVars, sysMonVars, monVars, chatVars,
    settingsVars, testVars, sqlVars, ohlcvVars, signalVars, shVars, riskVars, cbVars,
    msgVars, apiVars, instVars>>

\* how many requests to /signals/generate one behaviour may make
MaxRequests == 3

\* two of SYMBOLS and two of TIMEFRAMES
GenSymbols == {"BTCUSD", "ETHUSD"}

GenTimeframes == {"1h", "4h"}

\* queryKey: ['signal', symbol, timeframe]
SignalKey(symbol, timeframe) == [symbol |-> symbol, timeframe |-> timeframe]

\* isLoading: a first fetch of the key is in flight
SignalLoading == sigKey \in sigFetching /\ sigKey \notin sigCache

\* the queryFn runs: GET /signals/generate/{symbol}?timeframe=...
IssueRequest(key, cause) ==
    /\ Len(sigLog) < MaxRequests
    /\ sigLog' = Append(sigLog, cause)
    /\ sigFetching' = sigFetching \cup {key}

\* what an observer does when it starts to watch a key: it fetches when the
\* key holds no data or its data is stale and no request is in flight
ObserveKey(key, stale, cause) ==
    IF key \notin sigFetching /\ (key \notin sigCache \/ stale)
    THEN IssueRequest(key, cause)
    ELSE UNCHANGED <<sigFetching, sigLog>>

InitGen ==
    /\ sigMounted = FALSE
    /\ sigKey = SignalKey("BTCUSD", "1h")
    /\ sigCache = {}
    /\ sigFetching = {}
    /\ sigLog = <<>>

\* the page is opened: selectors start at BTCUSD and 1h, useQuery subscribes
SignalsMount(stale) ==
    /\ ~sigMounted
    /\ sigMounted' = TRUE
    /\ sigKey' = SignalKey("BTCUSD", "1h")
    /\ ObserveKey(SignalKey("BTCUSD", "1h"), stale, "mount")
    /\ UNCHANGED sigCache
    /\ UNCHANGED genFrame

\* the page is left
SignalsUnmount ==
    /\ sigMounted
    /\ sigMounted' = FALSE
    /\ UNCHANGED <<sigKey, sigCache, sigFetching, sigLog>>
    /\ UNCHANGED genFrame

\* the symbol selector's onChange: the query key changes
SelectSignalSymbol(symbol, stale) ==
    /\ sigMounted
    /\ symbol # sigKey.symbol
    /\ sigKey' = SignalKey(symbol, sigKey.timeframe)
    /\ ObserveKey(SignalKey(symbol, sigKey.timeframe), stale, "symbol")
    /\ UNCHANGED <<sigMounted, sigCache>>
    /\ UNCHANGED genFrame

\* the timeframe selector's onChange: the query key changes
SelectSignalTimeframe(timeframe, stale) ==
    /\ sigMounted
    /\ timeframe # sigKey.timeframe
    /\ sigKey' = SignalKey(sigKey.symbol, timeframe)
    /\ ObserveKey(SignalKey(sigKey.symbol, timeframe), stale, "timeframe")
    /\ UNCHANGED <<sigMounted, sigCache>>
    /\ UNCHANGED genFrame

\* refetchInterval: 60000; a fetch already in flight is joined
SignalIntervalFire ==
    /\ sigMounted
    /\ sigKey \notin sigFetching
    /\ IssueRequest(sigKey, "interval")
    /\ UNCHANGED <<sigMounted, sigKey, sigCache>>
    /\ UNCHANGED genFrame

\* 'Generate Signal' is pressed: refetch(), which replaces a fetch in flight
ClickGenerate ==
    /\ sigMounted
    /\ ~SignalLoading
    /\ IssueRequest(sigKey, "button")
    /\ UNCHANGED <<sigMounted, sigKey, sigCache>>
    /\ UNCHANGED genFrame

\* the request for a key is answered or fails
SignalResponse(key, ok) ==
    /\ key \in sigFetching
    /\ sigFetching' = sigFetching \ {key}
    /\ sigCache' = IF ok THEN sigCache \cup {key} ELSE sigCache
    /\ UNCHANGED <<sigMounted, sigKey, sigLog>>
    /\ UNCHANGED genFrame

NextGen ==
    \/ \E stale \in BOOLEAN : SignalsMount(stale)
    \/ SignalsUnmount
    \/ \E symbol \in GenSymbols, stale \in BOOLEAN : SelectSignalSymbol(symbol, stale)
    \/ \E timeframe \in GenTimeframes, stale \in BOOLEAN :
          SelectSignalTimeframe(timeframe, stale)
    \/ SignalIntervalFire
    \/ ClickGenerate
    \/ \E key \in sigFetching, ok \in BOOLEAN : SignalResponse(key, ok)

(***************************************************************************)
(* The control-panel API (routes.py).  A handler's body either returns or  *)
(* raises; HTTPException is a subclass of Exception.                       *)
(***************************************************************************)
apiFrame == <<panelVars, analysisVars, wsVars, sysMonVars, monVars, chatVars,
    settingsVars, testVars, sqlVars, ohlcvVars, signalVars, shVars, riskVars, cbVars,
    msgVars, genVars, instVars>>

ApiSymbols == {"EURUSD", "XAUUSD"}

Tickets == {1, 2}

\* `return {...}`
Return == [kind |-> "return", class |-> "none", status_code |-> 200]

\* `raise HTTPException(status_code=...)`
HTTPException(status_code) ==
    [kind |-> "raise", class |-> "HTTPException", status_code |-> status_code]

\* an exception raised by the code a handler calls
OtherException == [kind |-> "raise", class |-> "Exception", status_code |-> 0]

\* `except Exception as e`: every exception class of the handlers derives
\* from Exception, HTTPException included
IsException(result) == result.kind = "raise"

\* try: <body>  except Exception as e: raise HTTPException(status_code=500)
TryExcept(body) == IF IsException(body) THEN HTTPException(500) ELSE body

\* the status FastAPI sends: 200 for a return, the HTTPException's status
\* code, 500 for any other exception
StatusSent(result) ==
    IF result.kind = "return" THEN 200
    ELSE IF result.class = "HTTPException" THEN result.status_code
    ELSE 500

\* the body of create_agent's try block; `agent` is what
\* swarm_factory.create_agent returned
CreateAgentBody(raises, agent) ==
    IF raises THEN OtherException
    ELSE IF agent THEN Return
    ELSE HTTPException(400)

\* the body of stop_agent's try block
StopAgentBody(raises, success) ==
    IF raises THEN OtherException
    ELSE IF success THEN Return
    ELSE HTTPException(404)

\* the body of get_agent_status's try block
GetAgentStatusBody(raises, found) ==
    IF raises THEN OtherException
    ELSE IF found THEN Return
    ELSE HTTPException(404)

\* the body of close_position's try block; MT5Client.close_position catches
\* its own exceptions and returns {'success': False, ...}
ClosePositionBody(success) ==
    IF success THEN Return ELSE HTTPException(400)

\* what is recorded of a request
Response(endpoint, body) ==
    [endpoint |-> endpoint, raised |-> body, status |-> StatusSent(TryExcept(body))]

InitApi ==
    /\ apiAgents = {}
    /\ apiPositions = {}
    /\ apiResponse = [endpoint |-> "none", raised |-> Return, status |-> 200]

\* POST /api/agents/create
CreateAgent(symbol, raises, created) ==
    /\ apiResponse' = Response("create_agent", CreateAgentBody(raises, created))
    /\ apiAgents' = IF ~raises /\ created THEN apiAgents \cup {symbol} ELSE apiAgents
    /\ UNCHANGED apiPositions
    /\ UNCHANGED apiFrame

\* POST /api/agents/stop/{symbol}
StopAgent(symbol, raises) ==
    /\ apiResponse' = Response("stop_agent", StopAgentBody(raises, symbol \in apiAgents))
    /\ apiAgents' = IF raises THEN apiAgents ELSE apiAgents \ {symbol}
    /\ UNCHANGED apiPositions
    /\ UNCHANGED apiFrame

\* GET /api/agents/{symbol}/status
GetAgentStatus(symbol, raises) ==
    /\ apiResponse' =
         Response("get_agent_status", GetAgentStatusBody(raises, symbol \in apiAgents))
    /\ UNCHANGED <<apiAgents, apiPositions>>
    /\ UNCHANGED apiFrame

\* an agent opens a position in MetaTrader 5
PositionOpens(ticket) ==
    /\ ticket \notin apiPositions
    /\ apiPositions' = apiPositions \cup {ticket}
    /\ UNCHANGED <<apiAgents, apiResponse>>
    /\ UNCHANGED apiFrame

\* POST /api/positions/{ticket}/close; the close succeeds when the position
\* exists and order_send answers TRADE_RETCODE_DONE
ClosePosition(ticket, done) ==
    /\ apiResponse' =
         Response("close_position", ClosePositionBody(ticket \in apiPositions /\ done))
    /\ apiPositions' = IF done THEN apiPositions \ {ticket} ELSE apiPositions
    /\ UNCHANGED apiAgents
    /\ UNCHANGED apiFrame

NextApi ==
    \/ \E symbol \in ApiSymbols, raises, created \in BOOLEAN :
          CreateAgent(symbol, raises, created)
    \/ \E symbol \in ApiSymbols, raises \in BOOLEAN : StopAgent(symbol, raises)
    \/ \E symbol \in ApiSymbols, raises \in BOOLEAN : GetAgentStatus(symbol, raises)
    \/ \E ticket \in Tickets : PositionOpens(ticket)
    \/ \E ticket \in Tickets, done \in BOOLEAN : ClosePosition(ticket, done)

(***************************************************************************)
(* The installers (install.sh of v2, install.bat) and the .env files.      *)
(***************************************************************************)
instFrame == <<panelVars, analysisVars, wsVars, sysMonVars, monVars, chatVars,
    settingsVars, testVars, sqlVars, ohlcvVars, signalVars, shVars, riskVars, cbVars,
    msgVars, genVars, apiVars>>

\* how many times one behaviour may start an installer
MaxInstalls == 2

Installers == {"install.sh", "install.bat"}

EnvDirs == {"backend", "frontend"}

\* a file that does not exist
Absent == "absent"

\* the contents of .env.example
Example == "example"

\* what the user may write into a .env file
UserContents == {"configured"}

\* the installer's steps: the backend's dependencies, backend/.env, the
\* frontend's dependencies, frontend/.env
InstallSteps == << [kind |-> "deps", dir |-> "backend"],
                   [kind |-> "env", dir |-> "backend"],
                   [kind |-> "deps", dir |-> "frontend"],
                   [kind |-> "env", dir |-> "frontend"] >>

\* install.sh runs under `set -e`; install.bat goes on after a failed command
StopsOnError(script) == script = "install.sh"

\* a plain `cp .env.example .env`
EnvAfterCopy(content) == Example

\* `if [ ! -f ".env" ]; then cp .env.example .env; fi` and
\* `if not exist ".env" ( copy .env.example .env )`
EnvAfterInstall(content) == IF content = Absent THEN Example ELSE content

InitInst ==
    /\ instScript = "none"
    /\ instPc = 1
    /\ instRuns = 0
    /\ envFiles = [d \in EnvDirs |-> Absent]
    /\ envActor = "none"

\* an installer is started
InstallStart(script) ==
    /\ instScript = "none"
    /\ instRuns < MaxInstalls
    /\ instScript' = script
    /\ instPc' = 1
    /\ instRuns' = instRuns + 1
    /\ UNCHANGED <<envFiles, envActor>>
    /\ UNCHANGED instFrame

\* the running installer executes its next step; installing dependencies
\* may fail
InstallStep(ok) ==
    /\ instScript # "none"
    /\ LET step == InstallSteps[instPc]
           failed == step.kind = "deps" /\ ~ok
       IN  /\ envFiles' = IF step.kind = "env"
                          THEN [envFiles EXCEPT ![step.dir] = EnvAfterInstall(envFiles[step.dir])]
                          ELSE envFiles
           /\ envActor' = IF step.kind = "env" THEN "installer" ELSE envActor
           /\ IF (failed /\ StopsOnError(instScript)) \/ instPc = Len(InstallSteps)
              THEN instScript' = "none" /\ instPc' = 1
              ELSE instScript' = instScript /\ instPc' = instPc + 1
    /\ UNCHANGED instRuns
    /\ UNCHANGED instFrame

\* the user edits a .env file, adding API keys
UserEditsEnv(dir, content) ==
    /\ envFiles[dir] # content
    /\ envFiles' = [envFiles EXCEPT ![dir] = content]
    /\ envActor' = "user"
    /\ UNCHANGED <<instScript, instPc, instRuns>>
    /\ UNCHANGED instFrame

\* the user deletes a .env file
UserDeletesEnv(dir) ==
    /\ envFiles[dir] # Absent
    /\ envFiles' = [envFiles EXCEPT ![dir] = Absent]
    /\ envActor' = "user"
    /\ UNCHANGED <<instScript, instPc, instRuns>>
    /\ UNCHANGED instFrame

NextInst ==
    \/ \E script \in Installers : InstallStart(script)
    \/ \E ok \in BOOLEAN : InstallStep(ok)
    \/ \E dir \in EnvDirs, content \in UserContents : UserEditsEnv(dir, content)
    \/ \E dir \in EnvDirs : UserDeletesEnv(dir)

(***************************************************************************)
(* Specifications.                                                         *)
(***************************************************************************)
Init ==
    /\ InitPanels
    /\ InitAnalysis
    /\ InitWs
    /\ InitSysMon
    /\ InitMon
    /\ InitChat
    /\ InitSettings
    /\ InitTest
    /\ InitDb
    /\ InitOhlcv
    /\ InitSignals
    /\ InitShell
    /\ InitRisk
    /\ InitCb
    /\ InitMsgs
    /\ InitGen
    /\ InitApi
    /\ InitInst

\* timers and the retry delay run to completion in a live page
SpecPanels ==
    /\ Init
    /\ [][NextPanels]_vars
    /\ WF_vars(PanelTime)
    /\ WF_vars(PanelIntervalFire)
    /\ WF_vars(PanelRetry)

SpecAnalysis ==
    /\ Init
    /\ [][NextAnalysis]_vars
    /\ WF_vars(AnalysisIntervalFire)
    /\ \A p \in Pairs : WF_vars(AnalysisRetry(p))

SpecWs == Init /\ [][NextWs]_vars

SpecMonitoring == Init /\ [][NextMonitoring]_vars

SpecChat == Init /\ [][NextChat]_vars

SpecSettings == Init /\ [][NextSettings]_vars

SpecTest == Init /\ [][NextTest]_vars

SpecSql == Init /\ [][NextSql]_vars

SpecOhlcv == Init /\ [][NextOhlcv]_vars

SpecSignals == Init /\ [][NextSignals]_vars

SpecShell == Init /\ [][NextShell]_vars

SpecRisk == Init /\ [][NextRisk]_vars

SpecOrders == Init /\ [][NextOrders]_vars

SpecCb == Init /\ [][NextCb]_vars

\* every request to /chat/message settles
SpecMsgs ==
    /\ Init
    /\ [][NextMsgs]_vars
    /\ \A n \in 1..MaxSends : WF_vars(\E outcome \in {"success", "error"} : SendSettles(n, outcome))

SpecGen == Init /\ [][NextGen]_vars

SpecApi == Init /\ [][NextApi]_vars

SpecInst == Init /\ [][NextInst]_vars

(***************************************************************************)
(* Claims.                                                                 *)
(***************************************************************************)
\* C1: while the panel's query holds no data (first load, or every attempt
\* failed), the panel renders its built-in fallback and no read throws: five
\* NEUTRAL opinions, all-zero performance not paused, no mistakes, no events.
C1_FallbackWhileNoData ==
    (pMounted /\ pq.data = Undefined) =>
        /\ ~PanelView.threw
        /\ panel = "consensus" =>
             /\ PanelView.votes = <<"NEUTRAL", "NEUTRAL", "NEUTRAL", "NEUTRAL", "NEUTRAL">>
             /\ PanelView.direction = "NEUTRAL"
             /\ PanelView.score = 0
        /\ panel = "performance" =>
             /\ PanelView.metrics = <<0, 0, 0, 0>>
             /\ PanelView.pnl = 0 /\ PanelView.trades = 0
             /\ PanelView.paused = FALSE
        /\ panel = "mistakes" =>
             /\ PanelView.empty /\ PanelView.total = 0 /\ PanelView.actions = <<>>
        /\ panel = "evolution" => PanelView.empty

\* a panel whose every attempt has failed, still without data
C1_Witness ==
    /\ pMounted /\ pq.data = Undefined /\ pq.status = "error"
    /\ pq.failureCount = Retry + 1

C8_SubscribeOncePerOpen ==
    /\ ~wsThrew
    /\ \A i \in DOMAIN sock : sock[i].opened => sock[i].subs = 1


C9_StartPauseStopMachine ==
    [][(monMounted /\ monMounted') =>
        /\ StartOffered <=> ~(PauseOffered \/ StopOffered)
        /\ PauseOffered <=> StopOffered
        /\ status' # status =>
            \/ /\ ~status.isRunning
               /\ status'.isRunning /\ status'.startTime = now
               /\ status' = [status EXCEPT !.isRunning = TRUE, !.startTime = now,
                                           !.activeTasks = 5]
            \/ /\ status.isRunning
               /\ status' = [status EXCEPT !.isRunning = FALSE]
            \/ /\ status.isRunning
               /\ status' = [status EXCEPT !.isRunning = FALSE, !.startTime = NoTime,
                                           !.activeTasks = 0]
               /\ uptime' = <<0, 0, 0>>]_vars

\* paused after the uptime had advanced: not running, start time and tasks kept
C9_Witness ==
    /\ monMounted /\ ~status.isRunning /\ logTop = "warning"
    /\ status.startTime # NoTime /\ status.activeTasks = 5 /\ uptime # <<0, 0, 0>>


\* C5: after a stop request has succeeded the toggle stays in the stopped
\* state until a start request succeeds.
C5_StoppedUntilStart == (lastToggle = "stop") => ~isMonitoring


\* C6: the POST that Save sends carries the active section and the form's
\* current values.
C6_SaveSendsForm ==
    [][(saveMutation = "idle" /\ saveMutation' = "pending") =>
         lastPost' = [kind |-> "object", section |-> activeSection,
                      settings |-> settings]]_vars

\* C7: once a test has settled, its outcome is shown beside the field whose
\* button started it.
C7_OutcomeBesideField ==
    lastSettled.key # "none" => ShownBeside(lastSettled.key) = lastSettled.outcome


\* C10: a run of the migration on a database that init.sql has been run on
\* ends without error, with every table and index the migration declares
\* present as declared.
C10_MigrationAfterInitClean ==
    (run.script = "migration" /\ run.afterInit /\ run.state # "running") =>
        /\ run.state = "finished"
        /\ run.errors = {}
        /\ Declared(db, Migration002)


\* C11: after every statement no two rows of market_data_ohlcv share the same
\* (time, symbol, timeframe), and an insert whose triple is already in the
\* table is rejected and leaves the table as it was.
C11_OhlcvKeyUnique ==
    [][/\ \A i, j \in DOMAIN ohlcvRows' :
            (ohlcvRows'[i].time = ohlcvRows'[j].time
             /\ ohlcvRows'[i].symbol = ohlcvRows'[j].symbol
             /\ ohlcvRows'[i].timeframe = ohlcvRows'[j].timeframe) => i = j
       /\ (ohlcvResult'.op = "insert"
           /\ \E i \in DOMAIN ohlcvRows :
                /\ ohlcvRows[i].time = ohlcvResult'.row.time
                /\ ohlcvRows[i].symbol = ohlcvResult'.row.symbol
                /\ ohlcvRows[i].timeframe = ohlcvResult'.row.timeframe)
          => (~ohlcvResult'.ok /\ ohlcvRows' = ohlcvRows)]_vars

\* a row with another closing price for a triple already present was rejected
C11_Witness ==
    /\ ohlcvResult.op = "insert" /\ ~ohlcvResult.ok
    /\ Len(ohlcvRows) = 2
    /\ \E i \in DOMAIN ohlcvRows :
         /\ KeyOf(ohlcvRows[i], OhlcvPrimaryKey) = KeyOf(ohlcvResult.row, OhlcvPrimaryKey)
         /\ ohlcvRows[i].close # ohlcvResult.row.close


\* C12: every signal_outcomes row refers to an existing trading_signals row.
C12_OutcomeHasSignal == \A o \in outcomeRows : o.signal_id \in signalRows


\* C13: scripts/test.sh runs all seven groups to the end whatever the checks
\* give, prints the totals, and exits with 0 exactly when no check failed and
\* with 1 otherwise.
C13_TestShRunsToSummary ==
    (shScript = "test.sh" /\ shState = "exited") =>
        /\ shSummary
        /\ shExit = IF testsFailed = 0 THEN 0 ELSE 1

\* C14: the v2 test suite prints 'All tests passed!' only if the condition of
\* every one of its 10 tests held, the health check and the build included.
C14_AllPassedMeansAllSucceeded ==
    (shScript = "v2 test suite" /\ shAllPassed) =>
        Conditions("v2 test suite") \subseteq shEnv


\* C15: for entry different from stop, the lot size calculate_position_size
\* returns risks, by calculate_risk_amount, at most risk_per_trade_pct of the
\* account balance.
C15_LotWithinRisk ==
    (riskResult.op = "calculate_position_size" /\ riskResult.entry # riskResult.sl) =>
        CalculateRiskAmount(riskResult.entry, riskResult.sl, riskResult.lot)
            <= MaxRiskCents(accountBalance)

\* C16: every request sent to MetaTrader 5 to open a position carries a
\* non-zero stop loss and a non-zero take profit.
C16_OrderCarriesSlTp ==
    orderResult.sent => (orderResult.request.sl # 0 /\ orderResult.request.tp # 0)

C18_DisconnectStopsReconnect ==
    [][(wsDisconnected /\ wsDisconnected') =>
           (timers' = {} /\ Len(sock') = Len(sock))]_vars

\* C19: while the hook is mounted and disconnect() has not run, a socket
\* that closes sets connected to false and schedules exactly one reconnect
\* timer, and a timer that goes away does so by firing, which makes one new
\* connection attempt.
C19_CloseSchedulesOneReconnect ==
    [][(wsMounted = "yes" /\ ~wsDisconnected /\ wsMounted' = "yes" /\ ~wsDisconnected') =>
           /\ (\E i \in DOMAIN sock : sock[i].state # "CLOSED" /\ sock'[i].state = "CLOSED") =>
                  /\ connected' = FALSE
                  /\ timers \subseteq timers'
                  /\ Cardinality(timers' \ timers) = 1
                  /\ Len(sock') = Len(sock)
           /\ timers' # timers /\ timers' \subseteq timers =>
                  /\ Cardinality(timers \ timers') = 1
                  /\ Len(sock') = Len(sock) + 1
                  /\ sock'[Len(sock')].state = "CONNECTING"]_vars

\* the server stayed unreachable: the first socket closed without opening, its
\* timer fired, the second attempt closed as well and the next timer is
\* pending, the hook still mounted and never disconnected
C19_Witness ==
    /\ wsMounted = "yes"
    /\ ~wsDisconnected
    /\ Len(sock) = 2
    /\ \A i \in DOMAIN sock : sock[i].state = "CLOSED" /\ ~sock[i].opened
    /\ ~connected
    /\ timers = {2}

\* C20: at most one socket is connecting or open and at most one reconnect
\* timer is pending.
C20_OneSocketOneTimer ==
    /\ Cardinality({i \in DOMAIN sock : sock[i].state \in {"CONNECTING", "OPEN"}}) <= 1
    /\ Cardinality(timers) <= 1

\* C21: a send with non-blank input appends its user message once, at the
\* end of the list, also while another send is pending; no send ever has two
\* assistant messages; and every send that is pending is eventually answered
\* by an assistant message for it, the reply or the error message.
C21_EverySendAnswered ==
    /\ [][/\ nextSend' # nextSend =>
                /\ Trim(input) # ""
                /\ messages' = Append(messages, Message("user", "user", nextSend, input))
          /\ \A n \in 1..MaxSends :
                Cardinality({i \in DOMAIN messages' :
                    messages'[i].role = "assistant" /\ messages'[i].send = n}) <= 1]_vars
    /\ \A n \in 1..MaxSends :
          (n \in sendPending) ~>
              (\E i \in DOMAIN messages :
                  /\ messages[i].role = "assistant" /\ messages[i].send = n
                  /\ messages[i].kind \in {"reply", "error"})

\* two sends were pending together and the first of them is answered, while
\* the second is still pending
C21_Witness ==
    /\ sendPending = {2}
    /\ lastSent = 2
    /\ \E i, j, k \in DOMAIN messages :
          /\ i < j /\ j < k
          /\ messages[i].role = "user" /\ messages[i].send = 1
          /\ messages[j].role = "user" /\ messages[j].send = 2
          /\ messages[k].role = "assistant" /\ messages[k].send = 1

\* C22: a user or assistant message that was appended to the message list
\* stays in the list, at its place, in every later state.
C22_AppendedMessagesStay ==
    [][\A i \in DOMAIN messages :
          messages[i].send # 0 =>
              (i \in DOMAIN messages' /\ messages'[i] = messages[i])]_vars

\* C23: every request to /signals/generate was caused by pressing
\* 'Generate Signal'.
C23_GenerateOnlyOnButton ==
    \A i \in DOMAIN sigLog : sigLog[i] = "button"

\* C24: when a handler raises an HTTPException the client receives the
\* status code it names (404 for a symbol without an agent, 400 for a failed
\* creation or close), and 500 is sent for other exceptions only.
C24_StatusAsRaised ==
    /\ apiResponse.raised.class = "HTTPException" =>
           apiResponse.status = apiResponse.raised.status_code
    /\ apiResponse.status = 500 => apiResponse.raised.class = "Exception"

\* C25: a step of an installer leaves every .env file that exists as it is,
\* and a file it creates holds the contents of .env.example.
C25_InstallerKeepsEnv ==
    [][envActor' = "installer" =>
          \A d \in EnvDirs :
              /\ envFiles[d] # Absent => envFiles'[d] = envFiles[d]
              /\ envFiles[d] = Absent => envFiles'[d] \in {Absent, Example}]_vars

\* the installer was run a second time over .env files the user had edited
C25_Witness ==
    /\ instRuns = 2
    /\ instScript = "none"
    /\ envActor = "installer"
    /\ \A d \in EnvDirs : envFiles[d] \in UserContents

====
